---- MODULE Spec2Model ----
(***************************************************************************)
(* Gyroid-Gen geometry pipeline: generateGyroidMesh (field builder,        *)
(* boundary voider, marching cubes with edge-vertex caching, component     *)
(* extraction, Taubin smoothing, vertex normals) and exportToSTL.          *)
(*                                                                         *)
(* Number representation.                                                  *)
(*  - Lengths (size, cellSize, shellThickness, frameBeamWidth) are whole   *)
(*    millimetres; wallThickness is in hundredths; resolution is in halves *)
(*    (so that a non-integer resolution can be passed).                     *)
(*  - A grid coordinate mm[i] = -half + i*step = size*(2i - res)/(2*res)   *)
(*    is kept as its numerator size*(2i - res); every length t it is       *)
(*    compared with is kept as 2*res*t.  The comparison is then exact.     *)
(*    The parameter space keeps size/res exactly representable in binary   *)
(*    floating point, so the program's Float32Array/double arithmetic      *)
(*    gives the same outcome.                                              *)
(*  - sin and cos are tabulated on a 1.5 degree lattice, scaled by         *)
(*    SinScale; the wall thresholds of the parameter space stay away from  *)
(*    every value G takes on the modelled grids, so rounding cannot flip   *)
(*    a channel test.                                                      *)
(*  - A vertex position is a triple in half-step units: world coordinate   *)
(*    w = -half + (g + mu)*step is kept as 2*g + 2*mu - res.               *)
(***************************************************************************)
EXTENDS Integers, Sequences, FiniteSets, TLC

VARIABLES
    params,       \* GenParams of this invocation
    pc,           \* position in generateGyroidMesh
    error,        \* message of the Error thrown, or "none"
    progress,     \* values passed to onProgress so far, as <<numerator, denominator>>
    solidField,   \* Uint8Array(total), as the set of the indices idx with solidField[idx] = 1
    start,        \* field-builder chunk cursor
    caches,       \* <<cacheX, cacheY, cacheZ>>
    positions,    \* marching-cubes vertex buffer
    faceIndices,  \* marching-cubes index buffer
    cube,         \* marching-cubes loop cursor [x, y, z]
    posArr,       \* posArr of the post-processing stages
    idxArr,       \* idxArr of the post-processing stages
    result,       \* the MeshData returned, or NoMesh
    stl,          \* what exportToSTL made of the returned mesh, or NoSTL
    other         \* the locals of a second invocation, suspended at an await

vars == <<params, pc, error, progress, solidField, start, caches, positions,
          faceIndices, cube, posArr, idxArr, result, stl, other>>

Abs(v) == IF v < 0 THEN -v ELSE v

Max(a, b) == IF a >= b THEN a ELSE b

Min(a, b) == IF a <= b THEN a ELSE b

RECURSIVE Pow2(_)
Pow2(n) == IF n = 0 THEN 1 ELSE 2 * Pow2(n - 1)

\* bit e of the mask m:  m & (1 << e)
BitSet(m, e) == (m \div Pow2(e)) % 2 = 1

-----------------------------------------------------------------------------
(* Marching-cubes constants *)

dX == <<0, 1, 1, 0, 0, 1, 1, 0>>

dY == <<0, 0, 1, 1, 0, 0, 1, 1>>

dZ == <<0, 0, 0, 0, 1, 1, 1, 1>>

EDGE_V0 == <<0, 1, 2, 3, 4, 5, 6, 7, 0, 1, 2, 3>>

EDGE_V1 == <<1, 2, 3, 0, 5, 6, 7, 4, 4, 5, 6, 7>>

EDGE_CACHE_CORNER == <<0, 1, 3, 0, 4, 5, 7, 4, 0, 1, 2, 3>>

EDGE_DIR == <<0, 1, 0, 1, 0, 1, 0, 1, 2, 2, 2, 2>>

\* constants.ts: the standard 256-entry marching-cubes edge table
EDGE_TABLE ==
    <<0, 265, 515, 778, 1030, 1295, 1541, 1804, 2060, 2309, 2575, 2822, 3082, 3331, 3593, 3840,
      400, 153, 915, 666, 1430, 1183, 1941, 1692, 2460, 2197, 2975, 2710, 3482, 3219, 3993, 3728,
      560, 825, 51, 314, 1590, 1855, 1077, 1340, 2620, 2869, 2111, 2358, 3642, 3891, 3129, 3376,
      928, 681, 419, 170, 1958, 1711, 1445, 1196, 2988, 2725, 2479, 2214, 4010, 3747, 3497, 3232,
      1120, 1385, 1635, 1898, 102, 367, 613, 876, 3180, 3429, 3695, 3942, 2154, 2403, 2665, 2912,
      1520, 1273, 2035, 1786, 502, 255, 1013, 764, 3580, 3317, 4095, 3830, 2554, 2291, 3065, 2800,
      1616, 1881, 1107, 1370, 598, 863, 85, 348, 3676, 3925, 3167, 3414, 2650, 2899, 2137, 2384,
      1984, 1737, 1475, 1226, 966, 719, 453, 204, 4044, 3781, 3535, 3270, 3018, 2755, 2505, 2240,
      2240, 2505, 2755, 3018, 3270, 3535, 3781, 4044, 204, 453, 719, 966, 1226, 1475, 1737, 1984,
      2384, 2137, 2899, 2650, 3414, 3167, 3925, 3676, 348, 85, 863, 598, 1370, 1107, 1881, 1616,
      2800, 3065, 2291, 2554, 3830, 4095, 3317, 3580, 764, 1013, 255, 502, 1786, 2035, 1273, 1520,
      2912, 2665, 2403, 2154, 3942, 3695, 3429, 3180, 876, 613, 367, 102, 1898, 1635, 1385, 1120,
      3232, 3497, 3747, 4010, 2214, 2479, 2725, 2988, 1196, 1445, 1711, 1958, 170, 419, 681, 928,
      3376, 3129, 3891, 3642, 2358, 2111, 2869, 2620, 1340, 1077, 1855, 1590, 314, 51, 825, 560,
      3728, 3993, 3219, 3482, 2710, 2975, 2197, 2460, 1692, 1941, 1183, 1430, 666, 915, 153, 400,
      3840, 3593, 3331, 3082, 2822, 2575, 2309, 2060, 1804, 1541, 1295, 1030, 778, 515, 265, 0>>

\* constants.ts: the standard marching-cubes triangle table, 16 entries per cube index
TRI_TABLE ==
    <<-1, -1, -1, -1, -1, -1, -1, -1, -1, -1, -1, -1, -1, -1, -1, -1,
      0, 8, 3, -1, -1, -1, -1, -1, -1, -1, -1, -1, -1, -1, -1, -1,
      0, 1, 9, -1, -1, -1, -1, -1, -1, -1, -1, -1, -1, -1, -1, -1,
      1, 8, 3, 9, 8, 1, -1, -1, -1, -1, -1, -1, -1, -1, -1, -1,
      1, 2, 10, -1, -1, -1, -1, -1, -1, -1, -1, -1, -1, -1, -1, -1,
      0, 8, 3, 1, 2, 10, -1, -1, -1, -1, -1, -1, -1, -1, -1, -1,
      9, 2, 10, 0, 2, 9, -1, -1, -1, -1, -1, -1, -1, -1, -1, -1,
      2, 8, 3, 2, 10, 8, 10, 9, 8, -1, -1, -1, -1, -1, -1, -1,
      3, 11, 2, -1, -1, -1, -1, -1, -1, -1, -1, -1, -1, -1, -1, -1,
      0, 11, 2, 8, 11, 0, -1, -1, -1, -1, -1, -1, -1, -1, -1, -1,
      1, 9, 0, 2, 3, 11, -1, -1, -1, -1, -1, -1, -1, -1, -1, -1,
      1, 11, 2, 1, 9, 11, 9, 8, 11, -1, -1, -1, -1, -1, -1, -1,
      3, 10, 1, 11, 10, 3, -1, -1, -1, -1, -1, -1, -1, -1, -1, -1,
      0, 10, 1, 0, 8, 10, 8, 11, 10, -1, -1, -1, -1, -1, -1, -1,
      3, 9, 0, 3, 11, 9, 11, 10, 9, -1, -1, -1, -1, -1, -1, -1,
      9, 8, 10, 10, 8, 11, -1, -1, -1, -1, -1, -1, -1, -1, -1, -1,
      4, 7, 8, -1, -1, -1, -1, -1, -1, -1, -1, -1, -1, -1, -1, -1,
      4, 3, 0, 7, 3, 4, -1, -1, -1, -1, -1, -1, -1, -1, -1, -1,
      0, 1, 9, 8, 4, 7, -1, -1, -1, -1, -1, -1, -1, -1, -1, -1,
      4, 1, 9, 4, 7, 1, 7, 3, 1, -1, -1, -1, -1, -1, -1, -1,
      1, 2, 10, 8, 4, 7, -1, -1, -1, -1, -1, -1, -1, -1, -1, -1,
      3, 4, 7, 3, 0, 4, 1, 2, 10, -1, -1, -1, -1, -1, -1, -1,
      9, 2, 10, 9, 0, 2, 8, 4, 7, -1, -1, -1, -1, -1, -1, -1,
      2, 10, 9, 2, 9, 7, 2, 7, 3, 7, 9, 4, -1, -1, -1, -1,
      8, 4, 7, 3, 11, 2, -1, -1, -1, -1, -1, -1, -1, -1, -1, -1,
      11, 4, 7, 11, 2, 4, 2, 0, 4, -1, -1, -1, -1, -1, -1, -1,
      9, 0, 1, 8, 4, 7, 2, 3, 11, -1, -1, -1, -1, -1, -1, -1,
      4, 7, 11, 9, 4, 11, 9, 11, 2, 9, 2, 1, -1, -1, -1, -1,
      3, 10, 1, 3, 11, 10, 7, 8, 4, -1, -1, -1, -1, -1, -1, -1,
      1, 11, 10, 1, 4, 11, 1, 0, 4, 7, 11, 4, -1, -1, -1, -1,
      4, 7, 8, 9, 0, 11, 9, 11, 10, 11, 0, 3, -1, -1, -1, -1,
      4, 7, 11, 4, 11, 9, 9, 11, 10, -1, -1, -1, -1, -1, -1, -1,
      9, 5, 4, -1, -1, -1, -1, -1, -1, -1, -1, -1, -1, -1, -1, -1,
      9, 5, 4, 0, 8, 3, -1, -1, -1, -1, -1, -1, -1, -1, -1, -1,
      0, 5, 4, 1, 5, 0, -1, -1, -1, -1, -1, -1, -1, -1, -1, -1,
      8, 5, 4, 8, 3, 5, 3, 1, 5, -1, -1, -1, -1, -1, -1, -1,
      1, 2, 10, 9, 5, 4, -1, -1, -1, -1, -1, -1, -1, -1, -1, -1,
      3, 0, 8, 1, 2, 10, 4, 9, 5, -1, -1, -1, -1, -1, -1, -1,
      5, 2, 10, 5, 4, 2, 4, 0, 2, -1, -1, -1, -1, -1, -1, -1,
      2, 10, 5, 3, 2, 5, 3, 5, 4, 3, 4, 8, -1, -1, -1, -1,
      9, 5, 4, 2, 3, 11, -1, -1, -1, -1, -1, -1, -1, -1, -1, -1,
      0, 11, 2, 0, 8, 11, 4, 9, 5, -1, -1, -1, -1, -1, -1, -1,
      0, 5, 4, 0, 1, 5, 2, 3, 11, -1, -1, -1, -1, -1, -1, -1,
      2, 1, 5, 2, 5, 8, 2, 8, 11, 4, 8, 5, -1, -1, -1, -1,
      10, 3, 11, 10, 1, 3, 9, 5, 4, -1, -1, -1, -1, -1, -1, -1,
      4, 9, 5, 0, 8, 1, 8, 10, 1, 8, 11, 10, -1, -1, -1, -1,
      5, 4, 0, 5, 0, 11, 5, 11, 10, 11, 0, 3, -1, -1, -1, -1,
      5, 4, 8, 5, 8, 10, 10, 8, 11, -1, -1, -1, -1, -1, -1, -1,
      9, 7, 8, 5, 7, 9, -1, -1, -1, -1, -1, -1, -1, -1, -1, -1,
      9, 3, 0, 9, 5, 3, 5, 7, 3, -1, -1, -1, -1, -1, -1, -1,
      0, 7, 8, 0, 1, 7, 1, 5, 7, -1, -1, -1, -1, -1, -1, -1,
      1, 5, 3, 3, 5, 7, -1, -1, -1, -1, -1, -1, -1, -1, -1, -1,
      9, 7, 8, 9, 5, 7, 10, 1, 2, -1, -1, -1, -1, -1, -1, -1,
      10, 1, 2, 9, 5, 0, 5, 3, 0, 5, 7, 3, -1, -1, -1, -1,
      8, 0, 2, 8, 2, 5, 8, 5, 7, 10, 5, 2, -1, -1, -1, -1,
      2, 10, 5, 2, 5, 3, 3, 5, 7, -1, -1, -1, -1, -1, -1, -1,
      7, 9, 5, 7, 8, 9, 3, 11, 2, -1, -1, -1, -1, -1, -1, -1,
      9, 5, 7, 9, 7, 2, 9, 2, 0, 2, 7, 11, -1, -1, -1, -1,
      2, 3, 11, 0, 1, 8, 1, 7, 8, 1, 5, 7, -1, -1, -1, -1,
      11, 2, 1, 11, 1, 7, 7, 1, 5, -1, -1, -1, -1, -1, -1, -1,
      9, 5, 8, 8, 5, 7, 10, 1, 3, 10, 3, 11, -1, -1, -1, -1,
      5, 7, 0, 5, 0, 9, 7, 11, 0, 1, 0, 10, 11, 10, 0, -1,
      11, 10, 0, 11, 0, 3, 10, 5, 0, 8, 0, 7, 5, 7, 0, -1,
      11, 10, 5, 7, 11, 5, -1, -1, -1, -1, -1, -1, -1, -1, -1, -1,
      10, 6, 5, -1, -1, -1, -1, -1, -1, -1, -1, -1, -1, -1, -1, -1,
      0, 8, 3, 5, 10, 6, -1, -1, -1, -1, -1, -1, -1, -1, -1, -1,
      9, 0, 1, 5, 10, 6, -1, -1, -1, -1, -1, -1, -1, -1, -1, -1,
      1, 8, 3, 1, 9, 8, 5, 10, 6, -1, -1, -1, -1, -1, -1, -1,
      1, 6, 5, 2, 6, 1, -1, -1, -1, -1, -1, -1, -1, -1, -1, -1,
      1, 6, 5, 1, 2, 6, 3, 0, 8, -1, -1, -1, -1, -1, -1, -1,
      9, 6, 5, 9, 0, 6, 0, 2, 6, -1, -1, -1, -1, -1, -1, -1,
      5, 9, 8, 5, 8, 2, 5, 2, 6, 3, 2, 8, -1, -1, -1, -1,
      2, 3, 11, 10, 6, 5, -1, -1, -1, -1, -1, -1, -1, -1, -1, -1,
      11, 0, 8, 11, 2, 0, 10, 6, 5, -1, -1, -1, -1, -1, -1, -1,
      0, 1, 9, 2, 3, 11, 5, 10, 6, -1, -1, -1, -1, -1, -1, -1,
      5, 10, 6, 1, 9, 2, 9, 11, 2, 9, 8, 11, -1, -1, -1, -1,
      6, 3, 11, 6, 5, 3, 5, 1, 3, -1, -1, -1, -1, -1, -1, -1,
      0, 8, 11, 0, 11, 5, 0, 5, 1, 5, 11, 6, -1, -1, -1, -1,
      3, 11, 6, 0, 3, 6, 0, 6, 5, 0, 5, 9, -1, -1, -1, -1,
      6, 5, 9, 6, 9, 11, 11, 9, 8, -1, -1, -1, -1, -1, -1, -1,
      5, 10, 6, 4, 7, 8, -1, -1, -1, -1, -1, -1, -1, -1, -1, -1,
      4, 3, 0, 4, 7, 3, 6, 5, 10, -1, -1, -1, -1, -1, -1, -1,
      1, 9, 0, 5, 10, 6, 8, 4, 7, -1, -1, -1, -1, -1, -1, -1,
      10, 6, 5, 1, 9, 7, 1, 7, 3, 7, 9, 4, -1, -1, -1, -1,
      6, 1, 2, 6, 5, 1, 4, 7, 8, -1, -1, -1, -1, -1, -1, -1,
      1, 2, 5, 5, 2, 6, 3, 0, 4, 3, 4, 7, -1, -1, -1, -1,
      8, 4, 7, 9, 0, 5, 0, 6, 5, 0, 2, 6, -1, -1, -1, -1,
      7, 3, 9, 7, 9, 4, 3, 2, 9, 5, 9, 6, 2, 6, 9, -1,
      3, 11, 2, 7, 8, 4, 10, 6, 5, -1, -1, -1, -1, -1, -1, -1,
      5, 10, 6, 4, 7, 2, 4, 2, 0, 2, 7, 11, -1, -1, -1, -1,
      0, 1, 9, 4, 7, 8, 2, 3, 11, 5, 10, 6, -1, -1, -1, -1,
      9, 2, 1, 9, 11, 2, 9, 4, 11, 7, 11, 4, 5, 10, 6, -1,
      8, 4, 7, 3, 11, 5, 3, 5, 1, 5, 11, 6, -1, -1, -1, -1,
      5, 1, 11, 5, 11, 6, 1, 0, 11, 7, 11, 4, 0, 4, 11, -1,
      0, 5, 9, 0, 6, 5, 0, 3, 6, 11, 6, 3, 8, 4, 7, -1,
      6, 5, 9, 6, 9, 11, 4, 7, 9, 7, 11, 9, -1, -1, -1, -1,
      10, 4, 9, 6, 4, 10, -1, -1, -1, -1, -1, -1, -1, -1, -1, -1,
      4, 10, 6, 4, 9, 10, 0, 8, 3, -1, -1, -1, -1, -1, -1, -1,
      10, 0, 1, 10, 6, 0, 6, 4, 0, -1, -1, -1, -1, -1, -1, -1,
      8, 3, 1, 8, 1, 6, 8, 6, 4, 6, 1, 10, -1, -1, -1, -1,
      1, 4, 9, 1, 2, 4, 2, 6, 4, -1, -1, -1, -1, -1, -1, -1,
      3, 0, 8, 1, 2, 9, 2, 4, 9, 2, 6, 4, -1, -1, -1, -1,
      0, 2, 4, 4, 2, 6, -1, -1, -1, -1, -1, -1, -1, -1, -1, -1,
      8, 3, 2, 8, 2, 4, 4, 2, 6, -1, -1, -1, -1, -1, -1, -1,
      10, 4, 9, 10, 6, 4, 11, 2, 3, -1, -1, -1, -1, -1, -1, -1,
      0, 8, 2, 2, 8, 11, 4, 9, 10, 4, 10, 6, -1, -1, -1, -1,
      3, 11, 2, 0, 1, 6, 0, 6, 4, 6, 1, 10, -1, -1, -1, -1,
      6, 4, 1, 6, 1, 10, 4, 8, 1, 2, 1, 11, 8, 11, 1, -1,
      9, 6, 4, 9, 3, 6, 9, 1, 3, 11, 6, 3, -1, -1, -1, -1,
      8, 11, 1, 8, 1, 0, 11, 6, 1, 9, 1, 4, 6, 4, 1, -1,
      3, 11, 6, 3, 6, 0, 0, 6, 4, -1, -1, -1, -1, -1, -1, -1,
      6, 4, 8, 11, 6, 8, -1, -1, -1, -1, -1, -1, -1, -1, -1, -1,
      7, 10, 6, 7, 8, 10, 8, 9, 10, -1, -1, -1, -1, -1, -1, -1,
      0, 7, 3, 0, 10, 7, 0, 9, 10, 6, 7, 10, -1, -1, -1, -1,
      10, 6, 7, 1, 10, 7, 1, 7, 8, 1, 8, 0, -1, -1, -1, -1,
      10, 6, 7, 10, 7, 1, 1, 7, 3, -1, -1, -1, -1, -1, -1, -1,
      1, 2, 6, 1, 6, 8, 1, 8, 9, 8, 6, 7, -1, -1, -1, -1,
      2, 6, 9, 2, 9, 1, 6, 7, 9, 0, 9, 3, 7, 3, 9, -1,
      7, 8, 0, 7, 0, 6, 6, 0, 2, -1, -1, -1, -1, -1, -1, -1,
      7, 3, 2, 6, 7, 2, -1, -1, -1, -1, -1, -1, -1, -1, -1, -1,
      2, 3, 11, 10, 6, 8, 10, 8, 9, 8, 6, 7, -1, -1, -1, -1,
      2, 0, 7, 2, 7, 11, 0, 9, 7, 6, 7, 10, 9, 10, 7, -1,
      1, 8, 0, 1, 7, 8, 1, 10, 7, 6, 7, 10, 2, 3, 11, -1,
      11, 2, 1, 11, 1, 7, 10, 6, 1, 6, 7, 1, -1, -1, -1, -1,
      8, 9, 6, 8, 6, 7, 9, 1, 6, 11, 6, 3, 1, 3, 6, -1,
      0, 9, 1, 11, 6, 7, -1, -1, -1, -1, -1, -1, -1, -1, -1, -1,
      7, 8, 0, 7, 0, 6, 3, 11, 0, 11, 6, 0, -1, -1, -1, -1,
      7, 11, 6, -1, -1, -1, -1, -1, -1, -1, -1, -1, -1, -1, -1, -1,
      7, 6, 11, -1, -1, -1, -1, -1, -1, -1, -1, -1, -1, -1, -1, -1,
      3, 0, 8, 11, 7, 6, -1, -1, -1, -1, -1, -1, -1, -1, -1, -1,
      0, 1, 9, 11, 7, 6, -1, -1, -1, -1, -1, -1, -1, -1, -1, -1,
      8, 1, 9, 8, 3, 1, 11, 7, 6, -1, -1, -1, -1, -1, -1, -1,
      10, 1, 2, 6, 11, 7, -1, -1, -1, -1, -1, -1, -1, -1, -1, -1,
      1, 2, 10, 3, 0, 8, 6, 11, 7, -1, -1, -1, -1, -1, -1, -1,
      2, 9, 0, 2, 10, 9, 6, 11, 7, -1, -1, -1, -1, -1, -1, -1,
      6, 11, 7, 2, 10, 3, 10, 8, 3, 10, 9, 8, -1, -1, -1, -1,
      7, 2, 3, 6, 2, 7, -1, -1, -1, -1, -1, -1, -1, -1, -1, -1,
      7, 0, 8, 7, 6, 0, 6, 2, 0, -1, -1, -1, -1, -1, -1, -1,
      2, 7, 6, 2, 3, 7, 0, 1, 9, -1, -1, -1, -1, -1, -1, -1,
      1, 6, 2, 1, 8, 6, 1, 9, 8, 8, 7, 6, -1, -1, -1, -1,
      10, 7, 6, 10, 1, 7, 1, 3, 7, -1, -1, -1, -1, -1, -1, -1,
      10, 7, 6, 1, 7, 10, 1, 8, 7, 1, 0, 8, -1, -1, -1, -1,
      0, 3, 7, 0, 7, 10, 0, 10, 9, 6, 10, 7, -1, -1, -1, -1,
      7, 6, 10, 7, 10, 8, 8, 10, 9, -1, -1, -1, -1, -1, -1, -1,
      6, 8, 4, 11, 8, 6, -1, -1, -1, -1, -1, -1, -1, -1, -1, -1,
      3, 6, 11, 3, 0, 6, 0, 4, 6, -1, -1, -1, -1, -1, -1, -1,
      8, 6, 11, 8, 4, 6, 9, 0, 1, -1, -1, -1, -1, -1, -1, -1,
      9, 4, 6, 9, 6, 3, 9, 3, 1, 11, 3, 6, -1, -1, -1, -1,
      6, 8, 4, 6, 11, 8, 2, 10, 1, -1, -1, -1, -1, -1, -1, -1,
      1, 2, 10, 3, 0, 11, 0, 6, 11, 0, 4, 6, -1, -1, -1, -1,
      4, 11, 8, 4, 6, 11, 0, 2, 9, 2, 10, 9, -1, -1, -1, -1,
      10, 9, 3, 10, 3, 2, 9, 4, 3, 11, 3, 6, 4, 6, 3, -1,
      8, 2, 3, 8, 4, 2, 4, 6, 2, -1, -1, -1, -1, -1, -1, -1,
      0, 4, 2, 4, 6, 2, -1, -1, -1, -1, -1, -1, -1, -1, -1, -1,
      1, 9, 0, 2, 3, 4, 2, 4, 6, 4, 3, 8, -1, -1, -1, -1,
      1, 9, 4, 1, 4, 2, 2, 4, 6, -1, -1, -1, -1, -1, -1, -1,
      8, 1, 3, 8, 6, 1, 8, 4, 6, 6, 10, 1, -1, -1, -1, -1,
      10, 1, 0, 10, 0, 6, 6, 0, 4, -1, -1, -1, -1, -1, -1, -1,
      4, 6, 3, 4, 3, 8, 6, 10, 3, 0, 3, 9, 10, 9, 3, -1,
      10, 9, 4, 6, 10, 4, -1, -1, -1, -1, -1, -1, -1, -1, -1, -1,
      4, 9, 5, 7, 6, 11, -1, -1, -1, -1, -1, -1, -1, -1, -1, -1,
      0, 8, 3, 4, 9, 5, 11, 7, 6, -1, -1, -1, -1, -1, -1, -1,
      5, 0, 1, 5, 4, 0, 7, 6, 11, -1, -1, -1, -1, -1, -1, -1,
      11, 7, 6, 8, 3, 4, 3, 5, 4, 3, 1, 5, -1, -1, -1, -1,
      9, 5, 4, 10, 1, 2, 7, 6, 11, -1, -1, -1, -1, -1, -1, -1,
      6, 11, 7, 1, 2, 10, 0, 8, 3, 4, 9, 5, -1, -1, -1, -1,
      7, 6, 11, 5, 4, 10, 4, 2, 10, 4, 0, 2, -1, -1, -1, -1,
      3, 4, 8, 3, 5, 4, 3, 2, 5, 10, 5, 2, 11, 7, 6, -1,
      7, 2, 3, 7, 6, 2, 5, 4, 9, -1, -1, -1, -1, -1, -1, -1,
      9, 5, 4, 0, 8, 6, 0, 6, 2, 6, 8, 7, -1, -1, -1, -1,
      3, 6, 2, 3, 7, 6, 1, 5, 0, 5, 4, 0, -1, -1, -1, -1,
      6, 2, 8, 6, 8, 7, 2, 1, 8, 4, 8, 5, 1, 5, 8, -1,
      9, 5, 4, 10, 1, 6, 1, 7, 6, 1, 3, 7, -1, -1, -1, -1,
      1, 6, 10, 1, 7, 6, 1, 0, 7, 8, 7, 0, 9, 5, 4, -1,
      4, 0, 10, 4, 10, 5, 0, 3, 10, 6, 10, 7, 3, 7, 10, -1,
      7, 6, 10, 7, 10, 8, 5, 4, 10, 4, 8, 10, -1, -1, -1, -1,
      6, 9, 5, 6, 11, 9, 11, 8, 9, -1, -1, -1, -1, -1, -1, -1,
      3, 6, 11, 0, 6, 3, 0, 5, 6, 0, 9, 5, -1, -1, -1, -1,
      0, 11, 8, 0, 5, 11, 0, 1, 5, 5, 6, 11, -1, -1, -1, -1,
      6, 11, 3, 6, 3, 5, 5, 3, 1, -1, -1, -1, -1, -1, -1, -1,
      1, 2, 10, 9, 5, 11, 9, 11, 8, 11, 5, 6, -1, -1, -1, -1,
      0, 11, 3, 0, 6, 11, 0, 9, 6, 5, 6, 9, 1, 2, 10, -1,
      11, 8, 5, 11, 5, 6, 8, 0, 5, 10, 5, 2, 0, 2, 5, -1,
      6, 11, 3, 6, 3, 5, 2, 10, 3, 10, 5, 3, -1, -1, -1, -1,
      5, 8, 9, 5, 2, 8, 5, 6, 2, 3, 8, 2, -1, -1, -1, -1,
      9, 5, 6, 9, 6, 0, 0, 6, 2, -1, -1, -1, -1, -1, -1, -1,
      1, 5, 8, 1, 8, 0, 5, 6, 8, 3, 8, 2, 6, 2, 8, -1,
      1, 5, 6, 2, 1, 6, -1, -1, -1, -1, -1, -1, -1, -1, -1, -1,
      1, 3, 6, 1, 6, 10, 3, 8, 6, 5, 6, 9, 8, 9, 6, -1,
      10, 1, 0, 10, 0, 6, 9, 5, 0, 5, 6, 0, -1, -1, -1, -1,
      0, 3, 8, 5, 6, 10, -1, -1, -1, -1, -1, -1, -1, -1, -1, -1,
      10, 5, 6, -1, -1, -1, -1, -1, -1, -1, -1, -1, -1, -1, -1, -1,
      11, 5, 10, 7, 5, 11, -1, -1, -1, -1, -1, -1, -1, -1, -1, -1,
      11, 5, 10, 11, 7, 5, 8, 3, 0, -1, -1, -1, -1, -1, -1, -1,
      5, 11, 7, 5, 10, 11, 1, 9, 0, -1, -1, -1, -1, -1, -1, -1,
      10, 7, 5, 10, 11, 7, 9, 8, 1, 8, 3, 1, -1, -1, -1, -1,
      11, 1, 2, 11, 7, 1, 7, 5, 1, -1, -1, -1, -1, -1, -1, -1,
      0, 8, 3, 1, 2, 7, 1, 7, 5, 7, 2, 11, -1, -1, -1, -1,
      9, 7, 5, 9, 2, 7, 9, 0, 2, 2, 11, 7, -1, -1, -1, -1,
      7, 5, 2, 7, 2, 11, 5, 9, 2, 3, 2, 8, 9, 8, 2, -1,
      2, 5, 10, 2, 3, 5, 3, 7, 5, -1, -1, -1, -1, -1, -1, -1,
      8, 2, 0, 8, 5, 2, 8, 7, 5, 10, 2, 5, -1, -1, -1, -1,
      9, 0, 1, 5, 10, 3, 5, 3, 7, 3, 10, 2, -1, -1, -1, -1,
      9, 8, 2, 9, 2, 1, 8, 7, 2, 10, 2, 5, 7, 5, 2, -1,
      1, 3, 5, 3, 7, 5, -1, -1, -1, -1, -1, -1, -1, -1, -1, -1,
      0, 8, 7, 0, 7, 1, 1, 7, 5, -1, -1, -1, -1, -1, -1, -1,
      9, 0, 3, 9, 3, 5, 5, 3, 7, -1, -1, -1, -1, -1, -1, -1,
      9, 8, 7, 5, 9, 7, -1, -1, -1, -1, -1, -1, -1, -1, -1, -1,
      5, 8, 4, 5, 10, 8, 10, 11, 8, -1, -1, -1, -1, -1, -1, -1,
      5, 0, 4, 5, 11, 0, 5, 10, 11, 11, 3, 0, -1, -1, -1, -1,
      0, 1, 9, 8, 4, 10, 8, 10, 11, 10, 4, 5, -1, -1, -1, -1,
      10, 11, 4, 10, 4, 5, 11, 3, 4, 9, 4, 1, 3, 1, 4, -1,
      2, 5, 1, 2, 8, 5, 2, 11, 8, 4, 5, 8, -1, -1, -1, -1,
      0, 4, 11, 0, 11, 3, 4, 5, 11, 2, 11, 1, 5, 1, 11, -1,
      0, 2, 5, 0, 5, 9, 2, 11, 5, 4, 5, 8, 11, 8, 5, -1,
      9, 4, 5, 2, 11, 3, -1, -1, -1, -1, -1, -1, -1, -1, -1, -1,
      2, 5, 10, 3, 5, 2, 3, 4, 5, 3, 8, 4, -1, -1, -1, -1,
      5, 10, 2, 5, 2, 4, 4, 2, 0, -1, -1, -1, -1, -1, -1, -1,
      3, 10, 2, 3, 5, 10, 3, 8, 5, 4, 5, 8, 0, 1, 9, -1,
      5, 10, 2, 5, 2, 4, 1, 9, 2, 9, 4, 2, -1, -1, -1, -1,
      8, 4, 5, 8, 5, 3, 3, 5, 1, -1, -1, -1, -1, -1, -1, -1,
      0, 4, 5, 1, 0, 5, -1, -1, -1, -1, -1, -1, -1, -1, -1, -1,
      8, 4, 5, 8, 5, 3, 9, 0, 5, 0, 3, 5, -1, -1, -1, -1,
      9, 4, 5, -1, -1, -1, -1, -1, -1, -1, -1, -1, -1, -1, -1, -1,
      4, 11, 7, 4, 9, 11, 9, 10, 11, -1, -1, -1, -1, -1, -1, -1,
      0, 8, 3, 4, 9, 7, 9, 11, 7, 9, 10, 11, -1, -1, -1, -1,
      1, 10, 11, 1, 11, 4, 1, 4, 0, 7, 4, 11, -1, -1, -1, -1,
      3, 1, 4, 3, 4, 8, 1, 10, 4, 7, 4, 11, 10, 11, 4, -1,
      4, 11, 7, 9, 11, 4, 9, 2, 11, 9, 1, 2, -1, -1, -1, -1,
      9, 7, 4, 9, 11, 7, 9, 1, 11, 2, 11, 1, 0, 8, 3, -1,
      11, 7, 4, 11, 4, 2, 2, 4, 0, -1, -1, -1, -1, -1, -1, -1,
      11, 7, 4, 11, 4, 2, 8, 3, 4, 3, 2, 4, -1, -1, -1, -1,
      2, 9, 10, 2, 7, 9, 2, 3, 7, 7, 4, 9, -1, -1, -1, -1,
      9, 10, 7, 9, 7, 4, 10, 2, 7, 8, 7, 0, 2, 0, 7, -1,
      3, 7, 10, 3, 10, 2, 7, 4, 10, 1, 10, 0, 4, 0, 10, -1,
      1, 10, 2, 8, 7, 4, -1, -1, -1, -1, -1, -1, -1, -1, -1, -1,
      4, 9, 1, 4, 1, 7, 7, 1, 3, -1, -1, -1, -1, -1, -1, -1,
      4, 9, 1, 4, 1, 7, 0, 8, 1, 8, 7, 1, -1, -1, -1, -1,
      4, 0, 3, 7, 4, 3, -1, -1, -1, -1, -1, -1, -1, -1, -1, -1,
      4, 8, 7, -1, -1, -1, -1, -1, -1, -1, -1, -1, -1, -1, -1, -1,
      9, 10, 8, 10, 11, 8, -1, -1, -1, -1, -1, -1, -1, -1, -1, -1,
      3, 0, 9, 3, 9, 11, 11, 9, 10, -1, -1, -1, -1, -1, -1, -1,
      0, 1, 10, 0, 10, 8, 8, 10, 11, -1, -1, -1, -1, -1, -1, -1,
      3, 1, 10, 11, 3, 10, -1, -1, -1, -1, -1, -1, -1, -1, -1, -1,
      1, 2, 11, 1, 11, 9, 9, 11, 8, -1, -1, -1, -1, -1, -1, -1,
      3, 0, 9, 3, 9, 11, 1, 2, 9, 2, 11, 9, -1, -1, -1, -1,
      0, 2, 11, 8, 0, 11, -1, -1, -1, -1, -1, -1, -1, -1, -1, -1,
      3, 2, 11, -1, -1, -1, -1, -1, -1, -1, -1, -1, -1, -1, -1, -1,
      2, 3, 8, 2, 8, 10, 10, 8, 9, -1, -1, -1, -1, -1, -1, -1,
      9, 10, 2, 0, 9, 2, -1, -1, -1, -1, -1, -1, -1, -1, -1, -1,
      2, 3, 8, 2, 8, 10, 0, 1, 8, 1, 10, 8, -1, -1, -1, -1,
      1, 10, 2, -1, -1, -1, -1, -1, -1, -1, -1, -1, -1, -1, -1, -1,
      1, 3, 8, 9, 1, 8, -1, -1, -1, -1, -1, -1, -1, -1, -1, -1,
      0, 9, 1, -1, -1, -1, -1, -1, -1, -1, -1, -1, -1, -1, -1, -1,
      0, 3, 8, -1, -1, -1, -1, -1, -1, -1, -1, -1, -1, -1, -1, -1,
      -1, -1, -1, -1, -1, -1, -1, -1, -1, -1, -1, -1, -1, -1, -1, -1>>

\* Math.sin on the lattice of TurnSteps angles per turn, times SinScale
SIN_TABLE ==
    <<0, 262, 523, 785, 1045, 1305, 1564, 1822, 2079, 2334, 2588, 2840,
      3090, 3338, 3584, 3827, 4067, 4305, 4540, 4772, 5000, 5225, 5446, 5664,
      5878, 6088, 6293, 6494, 6691, 6884, 7071, 7254, 7431, 7604, 7771, 7934,
      8090, 8241, 8387, 8526, 8660, 8788, 8910, 9026, 9135, 9239, 9336, 9426,
      9511, 9588, 9659, 9724, 9781, 9833, 9877, 9914, 9945, 9969, 9986, 9997,
      10000, 9997, 9986, 9969, 9945, 9914, 9877, 9833, 9781, 9724, 9659, 9588,
      9511, 9426, 9336, 9239, 9135, 9026, 8910, 8788, 8660, 8526, 8387, 8241,
      8090, 7934, 7771, 7604, 7431, 7254, 7071, 6884, 6691, 6494, 6293, 6088,
      5878, 5664, 5446, 5225, 5000, 4772, 4540, 4305, 4067, 3827, 3584, 3338,
      3090, 2840, 2588, 2334, 2079, 1822, 1564, 1305, 1045, 785, 523, 262,
      0, -262, -523, -785, -1045, -1305, -1564, -1822, -2079, -2334, -2588, -2840,
      -3090, -3338, -3584, -3827, -4067, -4305, -4540, -4772, -5000, -5225, -5446, -5664,
      -5878, -6088, -6293, -6494, -6691, -6884, -7071, -7254, -7431, -7604, -7771, -7934,
      -8090, -8241, -8387, -8526, -8660, -8788, -8910, -9026, -9135, -9239, -9336, -9426,
      -9511, -9588, -9659, -9724, -9781, -9833, -9877, -9914, -9945, -9969, -9986, -9997,
      -10000, -9997, -9986, -9969, -9945, -9914, -9877, -9833, -9781, -9724, -9659, -9588,
      -9511, -9426, -9336, -9239, -9135, -9026, -8910, -8788, -8660, -8526, -8387, -8241,
      -8090, -7934, -7771, -7604, -7431, -7254, -7071, -6884, -6691, -6494, -6293, -6088,
      -5878, -5664, -5446, -5225, -5000, -4772, -4540, -4305, -4067, -3827, -3584, -3338,
      -3090, -2840, -2588, -2334, -2079, -1822, -1564, -1305, -1045, -785, -523, -262>>

TurnSteps == 240

SinScale == 10000

\* field-builder chunk length
CHUNK == 100000

\* extractLargestComponent leaves a mesh of fewer faces untouched
MIN_FACES == 100

-----------------------------------------------------------------------------
(* Parameter space *)

\* largest voxel count per axis
MaxRes == 6

Sizes == {12}

CellSizes == {6, 12}

\* hundredths
WallThicknesses == {-40, 60, 400}

ShellThicknesses == {1, 4}

FrameBeamWidths == {2, 4}

SmoothingIterations == {0, 1}

\* halves: 1 is resolution 0.5, 3 is resolution 1.5
Resolutions == {1, 3} \cup {2 * r : r \in 1..MaxRes}

DefaultParams ==
    [size |-> 12, cellSize |-> 6, wallThickness |-> 60, useFrame |-> FALSE,
     shellThickness |-> 1, frameBeamWidth |-> 4, resolution |-> 4,
     smoothingIterations |-> 0, makeManifold |-> FALSE]

\* size/r is exactly representable in binary floating point, and the angle
\* lattice holds every rad[i]
ExactGrid(size, r) ==
    \/ r = 0
    \/ /\ \E k \in 0..3 : (size * Pow2(k)) % r = 0
       /\ TurnSteps % (2 * r) = 0

ValidParams ==
    { p \in [size : Sizes, cellSize : CellSizes, wallThickness : WallThicknesses,
             useFrame : BOOLEAN, shellThickness : ShellThicknesses,
             frameBeamWidth : FrameBeamWidths, resolution : Resolutions,
             smoothingIterations : SmoothingIterations, makeManifold : BOOLEAN] :
        /\ ExactGrid(p.size, p.resolution \div 2)
        \* the fields the chosen mode never reads stay at their defaults
        /\ p.useFrame =>
              /\ p.shellThickness = DefaultParams.shellThickness
              /\ p.makeManifold = DefaultParams.makeManifold
        /\ ~p.useFrame => p.frameBeamWidth = DefaultParams.frameBeamWidth }

InvalidParams ==
    { p \in { [DefaultParams EXCEPT !.size = s, !.cellSize = c, !.resolution = r,
                                    !.useFrame = f] :
                s \in {-1, 0, 12}, c \in {-1, 0, 6}, r \in {-2, 0, 4},
                f \in BOOLEAN } :
        p.size <= 0 \/ p.cellSize <= 0 \/ p.resolution <= 0 }

NoMesh == [vertices |-> <<>>, normals |-> <<>>, indices |-> <<>>, returned |-> FALSE]

\* exportToSTL has not been called
NoSTL == [called |-> FALSE]

\* there is no second invocation
NoRun == [pc |-> "absent"]

-----------------------------------------------------------------------------
(* Quantities generateGyroidMesh derives from the parameters *)

\* variant of snappedCellCount: Math.floor in place of Math.round
snappedCellCountFloor ==
    Max(1, params.size \div params.cellSize)

\* Math.max(1, Math.round(size / cellSize))
snappedCellCount ==
    Max(1, (2 * params.size + params.cellSize) \div (2 * params.cellSize))

\* Math.floor(resolution)
res == params.resolution \div 2

np == res + 1

np2 == np * np

total == np * np * np

\* step = size / res is Infinity when res = 0; then mmCoords[0] = -half + 0 * step
\* is NaN, radCoords, sinRad and cosRad are NaN, and every comparison is false
CoordFinite == res > 0

\* a length t, on the scale of mmCoords
Scaled(t) == 2 * res * t

half == Scaled(params.size) \div 2

step == 2 * params.size

faceDepth == Scaled(params.shellThickness) + step * 2

edgeMargin == Scaled(params.shellThickness) + step

mmCoords(i) == -half + i * step

\* radCoords[i] = mmCoords[i] * scale, in lattice steps
radCoords(i) == (TurnSteps * snappedCellCount * (2 * i - res)) \div (2 * res)

sinRad(i) == SIN_TABLE[(radCoords(i) % TurnSteps) + 1]

cosRad(i) == SIN_TABLE[((radCoords(i) + TurnSteps \div 4) % TurnSteps) + 1]

zi(idx) == idx \div np2

yi(idx) == (idx - zi(idx) * np2) \div np

xi(idx) == (idx - zi(idx) * np2) - yi(idx) * np

\* G, times SinScale^2
G(idx) ==
    sinRad(xi(idx)) * cosRad(yi(idx))
  + sinRad(yi(idx)) * cosRad(zi(idx))
  + sinRad(zi(idx)) * cosRad(xi(idx))

\* wallThickness, on the scale of G
wallLevel == params.wallThickness * ((SinScale * SinScale) \div 100)

channelA(idx) == CoordFinite /\ G(idx) > wallLevel

channelB(idx) == CoordFinite /\ G(idx) < -wallLevel

gyroidWall(idx) == ~channelA(idx) /\ ~channelB(idx)

nearFace(i) ==
    CoordFinite /\ Abs(mmCoords(i)) >= half - Scaled(params.frameBeamWidth)

nearX(idx) == nearFace(xi(idx))

nearY(idx) == nearFace(yi(idx))

nearZ(idx) == nearFace(zi(idx))

\* variant of frameStructural: the pair (nearY, nearZ) left out
frameStructuralTwoPairs(idx) ==
    \/ nearX(idx) /\ nearY(idx)
    \/ nearX(idx) /\ nearZ(idx)

frameStructural(idx) ==
    \/ nearX(idx) /\ nearY(idx)
    \/ nearX(idx) /\ nearZ(idx)
    \/ nearY(idx) /\ nearZ(idx)

inInner(idx) ==
    /\ CoordFinite
    /\ Abs(mmCoords(xi(idx))) <= half - Scaled(params.shellThickness)
    /\ Abs(mmCoords(yi(idx))) <= half - Scaled(params.shellThickness)
    /\ Abs(mmCoords(zi(idx))) <= half - Scaled(params.shellThickness)

zFace(idx) ==
    /\ CoordFinite
    /\ \/ mmCoords(zi(idx)) < -half + faceDepth
       \/ mmCoords(zi(idx)) > half - faceDepth

xFace(idx) ==
    /\ CoordFinite
    /\ \/ mmCoords(xi(idx)) < -half + faceDepth
       \/ mmCoords(xi(idx)) > half - faceDepth

\* variant of nearYEdge: the x coordinate is tested in place of y
nearYEdgeOnX(idx) ==
    /\ CoordFinite
    /\ \/ mmCoords(xi(idx)) < -half + edgeMargin
       \/ mmCoords(xi(idx)) > half - edgeMargin

nearYEdge(idx) ==
    /\ CoordFinite
    /\ \/ mmCoords(yi(idx)) < -half + edgeMargin
       \/ mmCoords(yi(idx)) > half - edgeMargin

\* variant of openA: the port is cut where channel B runs
openAOnChannelB(idx) == zFace(idx) /\ ~xFace(idx) /\ ~nearYEdge(idx) /\ channelB(idx)

openA(idx) == zFace(idx) /\ ~xFace(idx) /\ ~nearYEdge(idx) /\ channelA(idx)

\* variant of openB: the Z band is not excluded
openBAcrossZ(idx) == xFace(idx) /\ ~nearYEdge(idx) /\ channelB(idx)

openB(idx) == xFace(idx) /\ ~zFace(idx) /\ ~nearYEdge(idx) /\ channelB(idx)

\* variant of shellStructural: makeManifold is not consulted
shellStructuralAlwaysOpen(idx) ==
    IF inInner(idx) THEN FALSE
    ELSE IF openA(idx) \/ openB(idx) THEN FALSE
    ELSE TRUE

shellStructural(idx) ==
    IF inInner(idx) THEN FALSE
    ELSE IF ~params.makeManifold /\ (openA(idx) \/ openB(idx)) THEN FALSE
    ELSE TRUE

structural(idx) ==
    IF params.useFrame THEN frameStructural(idx) ELSE shellStructural(idx)

\* the value the field builder stores in solidField[idx]
solidAt(idx) == IF structural(idx) \/ gyroidWall(idx) THEN 1 ELSE 0

\* variant of voided: the layer z = res is left as the field builder wrote it
voidedButTop ==
    UNION { { 0 + a * np + b * np2, res + a * np + b * np2,
              a + 0 + b * np2, a + res * np + b * np2,
              a + b * np } : a, b \in 0..(np - 1) }

\* the indices the boundary voider writes
voided ==
    UNION { { 0 + a * np + b * np2, res + a * np + b * np2,
              a + 0 + b * np2, a + res * np + b * np2,
              a + b * np, a + b * np + res * np2 } : a, b \in 0..(np - 1) }

P(n) == <<n, 1>>

-----------------------------------------------------------------------------
(* generateGyroidMesh, up to the marching-cubes sweep *)

Init ==
    /\ params \in ValidParams \cup InvalidParams
    /\ pc = "start"
    /\ error = "none"
    /\ progress = <<>>
    /\ solidField = {}
    /\ start = 0
    /\ caches = <<>>
    /\ positions = <<>>
    /\ faceIndices = <<>>
    /\ cube = [x |-> 0, y |-> 0, z |-> 0]
    /\ posArr = <<>>
    /\ idxArr = <<>>
    /\ result = NoMesh
    /\ stl = NoSTL
    /\ other = NoRun

Throw(msg) ==
    /\ error' = msg
    /\ pc' = "failed"
    /\ UNCHANGED <<stl, other, params, progress, solidField, start, caches, positions,
                   faceIndices, cube, posArr, idxArr, result>>

\* variant of Validate: the size is not checked
ValidateWithoutSize ==
    /\ pc = "start"
    /\ IF params.cellSize = 0 \/ params.cellSize <= 0 THEN Throw("Invalid cell size")
       ELSE IF params.resolution = 0 \/ params.resolution <= 0 THEN Throw("Invalid resolution")
       ELSE /\ solidField' = {}
            /\ progress' = Append(progress, P(5))
            /\ start' = 0
            /\ pc' = "field"
            /\ UNCHANGED <<stl, other, params, error, caches, positions, faceIndices, cube,
                           posArr, idxArr, result>>

\* validation, allocation of the field, coordinate tables, onProgress(5)
Validate ==
    /\ pc = "start"
    /\ IF params.cellSize = 0 \/ params.cellSize <= 0 THEN Throw("Invalid cell size")
       ELSE IF params.resolution = 0 \/ params.resolution <= 0 THEN Throw("Invalid resolution")
       ELSE IF params.size = 0 \/ params.size <= 0 THEN Throw("Invalid size")
       ELSE /\ solidField' = {}
            /\ progress' = Append(progress, P(5))
            /\ start' = 0
            /\ pc' = "field"
            /\ UNCHANGED <<stl, other, params, error, caches, positions, faceIndices, cube,
                           posArr, idxArr, result>>

\* one chunk of the field builder, with the report and yield that follow it
BuildChunk ==
    /\ pc = "field"
    /\ start < total
    /\ LET end == Min(start + CHUNK, total)
       IN  solidField' = { i \in solidField : i < start \/ i >= end }
                         \cup { i \in start..(end - 1) : solidAt(i) = 1 }
    /\ progress' = IF (start \div CHUNK) % 3 = 0
                   THEN Append(progress, <<5 * total + start * 25, total>>)
                   ELSE progress
    /\ start' = start + CHUNK
    /\ pc' = IF start + CHUNK < total THEN "field" ELSE "void"
    /\ UNCHANGED <<stl, other, params, error, caches, positions, faceIndices, cube,
                   posArr, idxArr, result>>

\* variant of VoidBoundary: onProgress(28) is left out
VoidBoundaryWithout28 ==
    /\ pc = "void"
    /\ solidField' = solidField \ voided
    /\ progress' = Append(progress, P(30))
    /\ caches' = LET fresh == <<>> IN <<fresh, fresh, fresh>>
    /\ positions' = <<>>
    /\ faceIndices' = <<>>
    /\ cube' = [x |-> 0, y |-> 0, z |-> 0]
    /\ pc' = IF res > 0 THEN "mc" ELSE "post"
    /\ UNCHANGED <<stl, other, params, error, start, posArr, idxArr, result>>

\* onProgress(28), the boundary voider, onProgress(30), the marching-cubes set-up
VoidBoundary ==
    /\ pc = "void"
    /\ solidField' = solidField \ voided
    /\ progress' = progress \o <<P(28), P(30)>>
    /\ caches' = LET fresh == <<>> IN <<fresh, fresh, fresh>>
    /\ positions' = <<>>
    /\ faceIndices' = <<>>
    /\ cube' = [x |-> 0, y |-> 0, z |-> 0]
    /\ pc' = IF res > 0 THEN "mc" ELSE "post"
    /\ UNCHANGED <<stl, other, params, error, start, posArr, idxArr, result>>

-----------------------------------------------------------------------------
(* Marching cubes with edge-vertex caching *)

cornerOff(c) == dX[c + 1] + dY[c + 1] * np + dZ[c + 1] * np2

axisDelta(dir) == <<1, np, np2>>[dir + 1]

\* cache[i] of an Int32Array(total).fill(-1), kept as the entries written since
cacheAt(cache, i) == IF i \in DOMAIN cache THEN cache[i] ELSE -1

\* variant of getEdgeVertex: the vertex is put at the end endA of the edge (mu = 0)
getEdgeVertexAtEndA(st, edge, c0) ==
    LET cacheCorner == EDGE_CACHE_CORNER[edge + 1]
        dir         == EDGE_DIR[edge + 1]
        baseIdx     == c0 + cornerOff(cacheCorner)
        cache       == st.caches[dir + 1]
    IN  IF cacheAt(cache, baseIdx) >= 0 THEN [st EXCEPT !.ret = cacheAt(cache, baseIdx)]
        ELSE
          LET gz   == baseIdx \div np2
              gy   == (baseIdx - gz * np2) \div np
              gx   == baseIdx - gz * np2 - gy * np
              w    == <<-res + 2 * gx, -res + 2 * gy, -res + 2 * gz>>
              vertIdx == Len(st.positions)
          IN  [st EXCEPT !.positions = Append(st.positions, w),
                         !.caches[dir + 1] = (baseIdx :> vertIdx) @@ @,
                         !.ret = vertIdx]

\* variant of getEdgeVertex: the cache is written but never read
getEdgeVertexUncached(st, edge, c0) ==
    LET cacheCorner == EDGE_CACHE_CORNER[edge + 1]
        dir         == EDGE_DIR[edge + 1]
        baseIdx     == c0 + cornerOff(cacheCorner)
        gz   == baseIdx \div np2
        gy   == (baseIdx - gz * np2) \div np
        gx   == baseIdx - gz * np2 - gy * np
        w    == IF dir = 0 THEN <<-res + (2 * gx + 1), -res + 2 * gy, -res + 2 * gz>>
                ELSE IF dir = 1 THEN <<-res + 2 * gx, -res + (2 * gy + 1), -res + 2 * gz>>
                ELSE <<-res + 2 * gx, -res + 2 * gy, -res + (2 * gz + 1)>>
        vertIdx == Len(st.positions)
    IN  [st EXCEPT !.positions = Append(st.positions, w),
                   !.caches[dir + 1] = (baseIdx :> vertIdx) @@ @,
                   !.ret = vertIdx]

\* getEdgeVertex(edge, c0) on the buffers st = [caches, positions, ev, ret];
\* ret is the vertex index it returns
getEdgeVertex(st, edge, c0) ==
    LET cacheCorner == EDGE_CACHE_CORNER[edge + 1]
        dir         == EDGE_DIR[edge + 1]
        baseIdx     == c0 + cornerOff(cacheCorner)
        cache       == st.caches[dir + 1]
    IN  IF cacheAt(cache, baseIdx) >= 0 THEN [st EXCEPT !.ret = cacheAt(cache, baseIdx)]
        ELSE
          LET endA == baseIdx
              endB == baseIdx + axisDelta(dir)
              fA   == IF endA \in solidField THEN -1 ELSE 1
              fB   == IF endB \in solidField THEN -1 ELSE 1
              diff == fB - fA
              \* twice mu
              mu   == IF Abs(diff) > 0
                      THEN Min(2, Max(0, (-2 * fA * diff) \div (diff * diff)))
                      ELSE 1
              gz   == baseIdx \div np2
              gy   == (baseIdx - gz * np2) \div np
              gx   == baseIdx - gz * np2 - gy * np
              w    == IF dir = 0 THEN <<-res + (2 * gx + mu), -res + 2 * gy, -res + 2 * gz>>
                      ELSE IF dir = 1 THEN <<-res + 2 * gx, -res + (2 * gy + mu), -res + 2 * gz>>
                      ELSE <<-res + 2 * gx, -res + 2 * gy, -res + (2 * gz + mu)>>
              vertIdx == Len(st.positions)
          IN  [st EXCEPT !.positions = Append(st.positions, w),
                         !.caches[dir + 1] = (baseIdx :> vertIdx) @@ @,
                         !.ret = vertIdx]

RECURSIVE cubeIndexFrom(_, _)
\* bit c is set when corner c is void
cubeIndexFrom(c, c0) ==
    IF c = 8 THEN 0
    ELSE (IF c0 + cornerOff(c) \notin solidField THEN Pow2(c) ELSE 0)
         + cubeIndexFrom(c + 1, c0)

RECURSIVE resolveEdges(_, _, _, _)
\* for (e = 0; e < 12; e++) if (edges & (1 << e)) ev[e] = getEdgeVertex(e, c0)
resolveEdges(st, e, edges, c0) ==
    IF e = 12 THEN st
    ELSE IF BitSet(edges, e)
         THEN LET got == getEdgeVertex(st, e, c0)
              IN  resolveEdges([got EXCEPT !.ev[e] = got.ret], e + 1, edges, c0)
         ELSE resolveEdges(st, e + 1, edges, c0)

RECURSIVE emitTrianglesUnresolved(_, _, _, _)
\* variant of emitTriangles: a triangle is pushed only when one of its edge
\* vertices is unresolved, so no triangle of resolved vertices is kept
emitTrianglesUnresolved(faces, t, tBase, ev) ==
    IF ~(t < 16) THEN faces
    ELSE LET e1 == TRI_TABLE[tBase + t + 1]
         IN  IF e1 = -1 THEN faces
             ELSE LET e2 == TRI_TABLE[tBase + t + 2]
                      e3 == TRI_TABLE[tBase + t + 3]
                  IN  IF ~(ev[e1] < 0 \/ ev[e2] < 0 \/ ev[e3] < 0)
                      THEN emitTrianglesUnresolved(faces, t + 3, tBase, ev)
                      ELSE emitTrianglesUnresolved(faces \o <<ev[e1], ev[e2], ev[e3]>>,
                                                   t + 3, tBase, ev)

RECURSIVE emitTriangles(_, _, _, _)
\* for (t = 0; t < 16; t += 3) ... faceIndices.push(ev[e1], ev[e2], ev[e3])
emitTriangles(faces, t, tBase, ev) ==
    IF ~(t < 16) THEN faces
    ELSE LET e1 == TRI_TABLE[tBase + t + 1]
         IN  IF e1 = -1 THEN faces
             ELSE LET e2 == TRI_TABLE[tBase + t + 2]
                      e3 == TRI_TABLE[tBase + t + 3]
                  IN  IF ev[e1] < 0 \/ ev[e2] < 0 \/ ev[e3] < 0
                      THEN emitTriangles(faces, t + 3, tBase, ev)
                      ELSE emitTriangles(faces \o <<ev[e1], ev[e2], ev[e3]>>,
                                         t + 3, tBase, ev)

\* the cube the sweep is at
c0Of(cb) == cb.x + cb.y * np + cb.z * np2

\* the buffers after the body of the x loop has run on cube c0
cubeStep(c0) ==
    LET cubeIndex == cubeIndexFrom(0, c0)
        edges     == EDGE_TABLE[cubeIndex + 1]
        st0       == [caches |-> caches, positions |-> positions,
                      ev |-> [e \in 0..11 |-> -1], ret |-> -1,
                      faces |-> faceIndices]
    IN  IF edges = 0 THEN st0
        ELSE LET st == resolveEdges(st0, 0, edges, c0)
             IN  [st EXCEPT !.faces = emitTriangles(faceIndices, 0, cubeIndex * 16, st.ev)]

nextCube(cb) ==
    IF cb.x + 1 < res THEN [cb EXCEPT !.x = cb.x + 1]
    ELSE IF cb.y + 1 < res THEN [cb EXCEPT !.x = 0, !.y = cb.y + 1]
    ELSE [x |-> 0, y |-> 0, z |-> cb.z + 1]

\* one cube of the sweep; entering a slab reports progress and yields first
McCube ==
    /\ pc = "mc"
    /\ progress' = IF cube.x = 0 /\ cube.y = 0 /\ cube.z % Max(1, res \div 20) = 0
                   THEN Append(progress, <<30 * res + cube.z * 45, res>>)
                   ELSE progress
    /\ LET st == cubeStep(c0Of(cube))
       IN  /\ caches' = st.caches
           /\ positions' = st.positions
           /\ faceIndices' = st.faces
    /\ cube' = nextCube(cube)
    /\ pc' = IF nextCube(cube).z < res THEN "mc" ELSE "post"
    /\ UNCHANGED <<stl, other, params, error, solidField, start, posArr, idxArr, result>>

-----------------------------------------------------------------------------
(* extractLargestComponent *)

RECURSIVE vertexRefs(_, _, _, _)
\* the index slots lo..hi appended, in order, to the list of the vertex each
\* names; evaluated by halves (refs[v] holds the slots j with indices[j] = v)
vertexRefs(indices, lo, hi, refs) ==
    IF lo > hi \/ DOMAIN refs = {} THEN refs
    ELSE IF lo = hi THEN [refs EXCEPT ![indices[lo]] = Append(@, lo)]
    ELSE LET mid == (lo + hi) \div 2
         IN  vertexRefs(indices, mid + 1, hi, vertexRefs(indices, lo, mid, refs))

\* every vertex with the slots of the index array that name it, ascending
slotsOf(indices, numVerts) ==
    vertexRefs(indices, 1, Len(indices), [v \in 0..(numVerts - 1) |-> <<>>])

\* vertFaces[v]: the faces pushed for vertex v, in the order of the pushes
vertFacesOf(indices, numVerts) ==
    LET refs == slotsOf(indices, numVerts)
    IN  [v \in 0..(numVerts - 1) |-> [k \in 1..Len(refs[v]) |-> (refs[v][k] - 1) \div 3]]

RECURSIVE pushUnvisited(_, _, _)
\* for (const nf of vertFaces[v]) if (!visited[nf]) { visited[nf] = 1; stack.push(nf); }
pushUnvisited(list, i, st) ==
    IF i > Len(list) THEN st
    ELSE IF list[i] \in st.visited THEN pushUnvisited(list, i + 1, st)
    ELSE pushUnvisited(list, i + 1,
                       [st EXCEPT !.visited = @ \cup {list[i]},
                                  !.stack = Append(@, list[i])])

\* one turn of  while (stack.length > 0) { f = stack.pop(); comp.push(f); ... }
popFace(indices, vertFaces, st) ==
    IF st.stack = <<>> THEN st
    ELSE LET f  == st.stack[Len(st.stack)]
             s0 == [st EXCEPT !.stack = SubSeq(@, 1, Len(@) - 1),
                              !.comp = Append(@, f)]
             s1 == pushUnvisited(vertFaces[indices[f * 3 + 1]], 1, s0)
             s2 == pushUnvisited(vertFaces[indices[f * 3 + 2]], 1, s1)
         IN  pushUnvisited(vertFaces[indices[f * 3 + 3]], 1, s2)

RECURSIVE floodFill(_, _, _, _)
\* the while loop, which takes at most n turns (a face is pushed once); the
\* turns are evaluated by halves so that the evaluation stays shallow
floodFill(indices, vertFaces, n, st) ==
    IF n = 0 \/ st.stack = <<>> THEN st
    ELSE IF n = 1 THEN popFace(indices, vertFaces, st)
    ELSE floodFill(indices, vertFaces, n - n \div 2,
                   floodFill(indices, vertFaces, n \div 2, st))

RECURSIVE seedLoopKeepsLast(_, _, _, _, _)
\* variant of seedLoop: a component as large as the best one replaces it (>= for >)
seedLoopKeepsLast(indices, vertFaces, numFaces, visited, bestComp) ==
    LET unvisited == (0..(numFaces - 1)) \ visited
    IN  IF unvisited = {} THEN bestComp
        ELSE LET seed == CHOOSE a \in unvisited : \A b \in unvisited : a <= b
                 done == floodFill(indices, vertFaces, numFaces,
                                   [stack |-> <<seed>>, visited |-> visited \cup {seed},
                                    comp |-> <<>>])
             IN  seedLoopKeepsLast(indices, vertFaces, numFaces, done.visited,
                          IF Len(done.comp) >= Len(bestComp) THEN done.comp ELSE bestComp)

RECURSIVE seedLoop(_, _, _, _, _)
\* for (seed = 0; seed < numFaces; seed++) { if (visited[seed]) continue; ... }
\* resumed at the least seed not yet visited
seedLoop(indices, vertFaces, numFaces, visited, bestComp) ==
    LET unvisited == (0..(numFaces - 1)) \ visited
    IN  IF unvisited = {} THEN bestComp
        ELSE LET seed == CHOOSE a \in unvisited : \A b \in unvisited : a <= b
                 done == floodFill(indices, vertFaces, numFaces,
                                   [stack |-> <<seed>>, visited |-> visited \cup {seed},
                                    comp |-> <<>>])
             IN  seedLoop(indices, vertFaces, numFaces, done.visited,
                          IF Len(done.comp) > Len(bestComp) THEN done.comp ELSE bestComp)

\* the body of  for (const f of bestComp)  for the i-th face of bestComp
compactFace(indices, bestComp, i, st) ==
    LET f == bestComp[i]
        ref(s, k) ==
            LET v == indices[f * 3 + k + 1]
            IN  IF s.vertMap[v] = -1
                THEN [vertMap |-> [s.vertMap EXCEPT ![v] = s.newVertCount],
                      newVertCount |-> s.newVertCount + 1,
                      newIdx |-> Append(s.newIdx, s.newVertCount)]
                ELSE [s EXCEPT !.newIdx = Append(@, s.vertMap[v])]
    IN  ref(ref(ref(st, 0), 1), 2)

RECURSIVE compactFaces(_, _, _, _, _)
\* for (const f of bestComp) ..., faces lo..hi of bestComp in order, evaluated
\* by halves; on entry newIdx holds the three entries of every earlier face
compactFaces(indices, bestComp, lo, hi, st) ==
    IF lo > hi \/ Len(st.newIdx) # 3 * (lo - 1) THEN st
    ELSE IF lo = hi THEN compactFace(indices, bestComp, lo, st)
    ELSE LET mid == (lo + hi) \div 2
         IN  compactFaces(indices, bestComp, mid + 1, hi,
                          compactFaces(indices, bestComp, lo, mid, st))

\* variant of extractLargestComponent: the early return is taken when the
\* largest component is NOT the whole mesh
extractLargestComponentInverted(pos, indices) ==
    LET numVerts == Len(pos)
        numFaces == Len(indices) \div 3
    IN  IF numFaces < MIN_FACES THEN [positions |-> pos, indices |-> indices]
        ELSE
          LET vertFaces == vertFacesOf(indices, numVerts)
              bestComp  == seedLoop(indices, vertFaces, numFaces, {}, <<>>)
          IN  IF Len(bestComp) # numFaces THEN [positions |-> pos, indices |-> indices]
              ELSE
                LET c == compactFaces(indices, bestComp, 1, Len(bestComp),
                                      [vertMap |-> [v \in 0..(numVerts - 1) |-> -1],
                                       newVertCount |-> 0, newIdx |-> <<>>])
                    newPos == [n \in 1..c.newVertCount |->
                                 pos[(CHOOSE v \in 0..(numVerts - 1) : c.vertMap[v] = n - 1) + 1]]
                IN  [positions |-> newPos, indices |-> c.newIdx]

extractLargestComponent(pos, indices) ==
    LET numVerts == Len(pos)
        numFaces == Len(indices) \div 3
    IN  IF numFaces < MIN_FACES THEN [positions |-> pos, indices |-> indices]
        ELSE
          LET vertFaces == vertFacesOf(indices, numVerts)
              bestComp  == seedLoop(indices, vertFaces, numFaces, {}, <<>>)
          IN  IF Len(bestComp) = numFaces THEN [positions |-> pos, indices |-> indices]
              ELSE
                LET c == compactFaces(indices, bestComp, 1, Len(bestComp),
                                      [vertMap |-> [v \in 0..(numVerts - 1) |-> -1],
                                       newVertCount |-> 0, newIdx |-> <<>>])
                    newPos == [n \in 1..c.newVertCount |->
                                 pos[(CHOOSE v \in 0..(numVerts - 1) : c.vertMap[v] = n - 1) + 1]]
                IN  [positions |-> newPos, indices |-> c.newIdx]

-----------------------------------------------------------------------------
(* taubinSmooth: positions are Float32 values, kept in units of 1/FixScale  *)
(* half-steps; a result is rounded to the nearest unit                      *)

FixScale == 100

\* new Float32Array(positions)
toFloat32(pos) == [v \in 1..Len(pos) |-> [a \in 1..3 |-> pos[v][a] * FixScale]]

\* a / b rounded to the nearest integer, b > 0
RoundDiv(a, b) == (2 * a + b) \div (2 * b)

\* adjTemp[a].push(b, c); adjTemp[b].push(a, c); adjTemp[c].push(a, b), then
\* deduplicated: the other two corners of every face slot that names v
neighbours(indices, slots) ==
    UNION { { indices[((j - 1) \div 3) * 3 + k] :
                k \in { k \in 1..3 : ((j - 1) \div 3) * 3 + k # j } } :
            j \in { slots[i] : i \in 1..Len(slots) } }

RECURSIVE sumCoord(_, _, _)
sumCoord(pos, S, a) ==
    IF S = {} THEN 0
    ELSE LET n == CHOOSE n \in S : TRUE
         IN  pos[n + 1][a] + sumCoord(pos, S \ {n}, a)

\* lambda = 0.5 and mu = -0.53, in hundredths
lambdaFactor == 50

muFactor == -53

\* variant of smoothPass: the y update reads the x sum
smoothPassXSumForY(temp, adj, factor) ==
    [v \in 1..Len(temp) |->
        LET count == Cardinality(adj[v])
        IN  IF count = 0 THEN temp[v]
            ELSE [a \in 1..3 |->
                    temp[v][a]
                    + RoundDiv(factor * (sumCoord(temp, adj[v], IF a = 2 THEN 1 ELSE a)
                                         - count * temp[v][a]),
                               100 * count)]]

\* one half-step of the smoothing loop
smoothPass(temp, adj, factor) ==
    [v \in 1..Len(temp) |->
        LET count == Cardinality(adj[v])
        IN  IF count = 0 THEN temp[v]
            ELSE [a \in 1..3 |->
                    temp[v][a]
                    + RoundDiv(factor * (sumCoord(temp, adj[v], a) - count * temp[v][a]),
                               100 * count)]]

RECURSIVE smoothLoop(_, _, _, _)
\* for (iter = from; iter < to; iter++) on the arrays
\* b = [positions, result, temp]: temp.set(result), then result is rewritten;
\* evaluated by halves
smoothLoop(b, adj, from, to) ==
    IF ~(from < to) \/ b.result = <<>> THEN b
    ELSE IF from + 1 = to
    THEN [b EXCEPT !.temp = b.result,
                   !.result = smoothPass(b.result, adj,
                       IF from % 2 = 0 THEN lambdaFactor ELSE muFactor)]
    ELSE LET mid == (from + to) \div 2
         IN  smoothLoop(smoothLoop(b, adj, from, mid), adj, mid, to)

\* the arrays of taubinSmooth when it returns: its argument positions, the
\* copy result it returns, and its scratch array temp
taubinSmoothBuffers(pos, indices, iterations) ==
    IF iterations <= 0 \/ Len(pos) = 0
    THEN [positions |-> pos, result |-> pos, temp |-> <<>>]
    ELSE LET refs == slotsOf(indices, Len(pos))
             adj  == [v \in 1..Len(pos) |-> neighbours(indices, refs[v - 1])]
         IN  smoothLoop([positions |-> pos, result |-> pos,
                         temp |-> [v \in 1..Len(pos) |-> <<0, 0, 0>>]],
                        adj, 0, iterations * 2)

taubinSmooth(pos, indices, iterations) ==
    taubinSmoothBuffers(pos, indices, iterations).result

-----------------------------------------------------------------------------
(* computeVertexNormals: a normal is kept as the accumulated area-weighted   *)
(* vector dir and the flag unit, set when the program scaled it to length 1 *)

faceCross(pos, indices, f) ==
    LET p0 == pos[indices[f * 3 + 1] + 1]
        p1 == pos[indices[f * 3 + 2] + 1]
        p2 == pos[indices[f * 3 + 3] + 1]
        ax == p1[1] - p0[1]
        ay == p1[2] - p0[2]
        az == p1[3] - p0[3]
        bx == p2[1] - p0[1]
        by == p2[2] - p0[2]
        bz == p2[3] - p0[3]
    IN  <<ay * bz - az * by, az * bx - ax * bz, ax * by - ay * bx>>

RECURSIVE sumCross(_, _, _, _)
\* the face normals added to the accumulator of one vertex
sumCross(pos, indices, js, i) ==
    IF i > Len(js) THEN <<0, 0, 0>>
    ELSE LET n == faceCross(pos, indices, (js[i] - 1) \div 3)
             r == sumCross(pos, indices, js, i + 1)
         IN  <<n[1] + r[1], n[2] + r[2], n[3] + r[3]>>

computeVertexNormals(pos, indices) ==
    LET refs == slotsOf(indices, Len(pos))
    IN  [v \in 1..Len(pos) |->
            LET dir == sumCross(pos, indices, refs[v - 1], 1)
            IN  [dir |-> dir, unit |-> dir # <<0, 0, 0>>]]

-----------------------------------------------------------------------------
(* generateGyroidMesh, after the sweep *)

\* variant of Extract: the largest component is extracted in frame mode too
ExtractInEveryMode ==
    /\ pc = "post"
    /\ LET mesh == extractLargestComponent(toFloat32(positions), faceIndices)
       IN  /\ posArr' = mesh.positions
           /\ idxArr' = mesh.indices
    /\ progress' = progress \o <<P(75), P(80)>>
    /\ pc' = "smooth"
    /\ UNCHANGED <<stl, other, params, error, solidField, start, caches, positions,
                   faceIndices, cube, result>>

\* onProgress(75), component extraction in shell mode, onProgress(80)
Extract ==
    /\ pc = "post"
    /\ LET mesh == IF ~params.useFrame
                   THEN extractLargestComponent(toFloat32(positions), faceIndices)
                   ELSE [positions |-> toFloat32(positions), indices |-> faceIndices]
       IN  /\ posArr' = mesh.positions
           /\ idxArr' = mesh.indices
    /\ progress' = progress \o <<P(75), P(80)>>
    /\ pc' = "smooth"
    /\ UNCHANGED <<stl, other, params, error, solidField, start, caches, positions,
                   faceIndices, cube, result>>

\* variant of Smooth: the buffers of the sweep are smoothed, not posArr and idxArr
SmoothSweepBuffers ==
    /\ pc = "smooth"
    /\ posArr' = IF params.smoothingIterations > 0
                 THEN taubinSmooth(toFloat32(positions), faceIndices,
                                   params.smoothingIterations)
                 ELSE posArr
    /\ progress' = Append(progress, P(90))
    /\ pc' = "normals"
    /\ UNCHANGED <<stl, other, params, error, solidField, start, caches, positions,
                   faceIndices, cube, idxArr, result>>

\* Taubin smoothing, onProgress(90)
Smooth ==
    /\ pc = "smooth"
    /\ posArr' = IF params.smoothingIterations > 0
                 THEN taubinSmooth(posArr, idxArr, params.smoothingIterations)
                 ELSE posArr
    /\ progress' = Append(progress, P(90))
    /\ pc' = "normals"
    /\ UNCHANGED <<stl, other, params, error, solidField, start, caches, positions,
                   faceIndices, cube, idxArr, result>>

\* variant of Finish: the index buffer of the sweep is returned in place of idxArr
FinishWithSweepIndices ==
    /\ pc = "normals"
    /\ result' = [vertices |-> posArr,
                  normals |-> computeVertexNormals(posArr, idxArr),
                  indices |-> faceIndices, returned |-> TRUE]
    /\ progress' = Append(progress, P(100))
    /\ pc' = "done"
    /\ UNCHANGED <<stl, other, params, error, solidField, start, caches, positions,
                   faceIndices, cube, posArr, idxArr>>

\* vertex normals, onProgress(100), return
Finish ==
    /\ pc = "normals"
    /\ result' = [vertices |-> posArr,
                  normals |-> computeVertexNormals(posArr, idxArr),
                  indices |-> idxArr, returned |-> TRUE]
    /\ progress' = Append(progress, P(100))
    /\ pc' = "done"
    /\ UNCHANGED <<stl, other, params, error, solidField, start, caches, positions,
                   faceIndices, cube, posArr, idxArr>>


-----------------------------------------------------------------------------
(* exportToSTL: the buffer is kept as its length, the uint32 written at      *)
(* offset 80, the records written, and the write offset after the loop      *)

\* the record written for face f: normal, three vertices, attribute byte count
stlRecord(vertices, indices, f) ==
    LET n == faceCross(vertices, indices, f)
    IN  [normal |-> [dir |-> n, unit |-> n # <<0, 0, 0>>],
         v0 |-> vertices[indices[f * 3 + 1] + 1],
         v1 |-> vertices[indices[f * 3 + 2] + 1],
         v2 |-> vertices[indices[f * 3 + 3] + 1],
         attribute |-> 0]

\* variant of exportToSTL: the vertex count is written at offset 80
exportToSTLVertexCount(data) ==
    IF Len(data.indices) = 0 THEN [called |-> TRUE, written |-> FALSE]
    ELSE LET numTriangles == Len(data.indices) \div 3
             bufferLength == 80 + 4 + numTriangles * 50
         IN  [called |-> TRUE, written |-> TRUE,
              byteLength |-> bufferLength,
              count |-> Len(data.vertices),
              records |-> [f \in 1..numTriangles |->
                             stlRecord(data.vertices, data.indices, f - 1)],
              offset |-> 84 + numTriangles * 50]

exportToSTL(data) ==
    \* console.warn('No triangles to export'); return
    IF Len(data.indices) = 0 THEN [called |-> TRUE, written |-> FALSE]
    ELSE LET numTriangles == Len(data.indices) \div 3
             bufferLength == 80 + 4 + numTriangles * 50
         IN  [called |-> TRUE, written |-> TRUE,
              byteLength |-> bufferLength,
              count |-> numTriangles,
              records |-> [f \in 1..numTriangles |->
                             stlRecord(data.vertices, data.indices, f - 1)],
              offset |-> 84 + numTriangles * 50]

\* handleExport: exportToSTL on the mesh the generation returned
Export ==
    /\ pc = "done"
    /\ ~stl.called
    /\ stl' = exportToSTL(result)
    /\ UNCHANGED <<other, params, pc, error, progress, solidField, start, caches,
                   positions, faceIndices, cube, posArr, idxArr, result>>

-----------------------------------------------------------------------------
(* Two invocations of generateGyroidMesh on the one event loop: the locals  *)
(* of the running one are the variables, those of the suspended one are     *)
(* held in other, and control changes hands at an await                     *)

\* the locals of the running invocation
locals ==
    [params |-> params, pc |-> pc, error |-> error, progress |-> progress,
     solidField |-> solidField, start |-> start, caches |-> caches,
     positions |-> positions, faceIndices |-> faceIndices, cube |-> cube,
     posArr |-> posArr, idxArr |-> idxArr, result |-> result]

\* the locals of an invocation that has not run yet
notStarted(p) ==
    [params |-> p, pc |-> "start", error |-> "none", progress |-> <<>>,
     solidField |-> {}, start |-> 0, caches |-> <<>>, positions |-> <<>>,
     faceIndices |-> <<>>, cube |-> [x |-> 0, y |-> 0, z |-> 0],
     posArr |-> <<>>, idxArr |-> <<>>, result |-> NoMesh]

\* the running invocation is not started, settled, or at an
\* await new Promise(r => setTimeout(r, 0))
AtYield ==
    \/ pc \in {"start", "done", "failed"}
    \/ pc \in {"field", "void"} /\ start > 0 /\ ((start - CHUNK) \div CHUNK) % 3 = 0
    \/ pc = "mc" /\ cube.x = 0 /\ cube.y = 0 /\ cube.z % Max(1, res \div 20) = 0

\* variant of Switch: solidField is module-level, shared by the invocations
SwitchSharingField ==
    /\ other.pc # "absent"
    /\ AtYield
    /\ other' = locals
    /\ params' = other.params
    /\ pc' = other.pc
    /\ error' = other.error
    /\ progress' = other.progress
    /\ start' = other.start
    /\ caches' = other.caches
    /\ positions' = other.positions
    /\ faceIndices' = other.faceIndices
    /\ cube' = other.cube
    /\ posArr' = other.posArr
    /\ idxArr' = other.idxArr
    /\ result' = other.result
    /\ UNCHANGED <<stl, solidField>>

\* variant of Switch: the sweep buffers are module-level, shared by the invocations
SwitchSharingBuffers ==
    /\ other.pc # "absent"
    /\ AtYield
    /\ other' = locals
    /\ params' = other.params
    /\ pc' = other.pc
    /\ error' = other.error
    /\ progress' = other.progress
    /\ solidField' = other.solidField
    /\ start' = other.start
    /\ cube' = other.cube
    /\ posArr' = other.posArr
    /\ idxArr' = other.idxArr
    /\ result' = other.result
    /\ UNCHANGED <<stl, caches, positions, faceIndices>>

\* the event loop resumes the other invocation
Switch ==
    /\ other.pc # "absent"
    /\ AtYield
    /\ other' = locals
    /\ params' = other.params
    /\ pc' = other.pc
    /\ error' = other.error
    /\ progress' = other.progress
    /\ solidField' = other.solidField
    /\ start' = other.start
    /\ caches' = other.caches
    /\ positions' = other.positions
    /\ faceIndices' = other.faceIndices
    /\ cube' = other.cube
    /\ posArr' = other.posArr
    /\ idxArr' = other.idxArr
    /\ result' = other.result
    /\ UNCHANGED stl

\* the requests of the two-invocation runs
TwoRunParams ==
    { [DefaultParams EXCEPT !.wallThickness = -40, !.shellThickness = 4,
                            !.resolution = 8, !.smoothingIterations = n] :
        n \in SmoothingIterations }
    \cup
    { [DefaultParams EXCEPT !.useFrame = TRUE, !.resolution = 6,
                            !.smoothingIterations = n] :
        n \in SmoothingIterations }

\* two requests that differ at most in smoothingIterations
InitTwo ==
    /\ params \in TwoRunParams
    /\ pc = "start"
    /\ error = "none"
    /\ progress = <<>>
    /\ solidField = {}
    /\ start = 0
    /\ caches = <<>>
    /\ positions = <<>>
    /\ faceIndices = <<>>
    /\ cube = [x |-> 0, y |-> 0, z |-> 0]
    /\ posArr = <<>>
    /\ idxArr = <<>>
    /\ result = NoMesh
    /\ stl = NoSTL
    /\ \E n \in SmoothingIterations :
          other = notStarted([params EXCEPT !.smoothingIterations = n])

NextTwo ==
    \/ Validate
    \/ BuildChunk
    \/ VoidBoundary
    \/ McCube
    \/ Extract
    \/ Smooth
    \/ Finish
    \/ Switch

SpecTwo == InitTwo /\ [][NextTwo]_vars

-----------------------------------------------------------------------------
(* taubinSmooth on flat meshes: the post-processing stages started on an   *)
(* indexed mesh whose vertices lie in one plane                             *)

\* largest iteration count of the flat-mesh runs
MaxFlatIterations == 2

\* flat outlines, as points <<u, v>> and index triples
FlatShapes ==
    { [points |-> <<<<0, 0>>, <<2, 0>>, <<0, 2>>>>,
       indices |-> <<0, 1, 2>>],
      [points |-> <<<<0, 0>>, <<2, 0>>, <<2, 2>>, <<0, 2>>>>,
       indices |-> <<0, 1, 2, 0, 2, 3>>],
      [points |-> <<<<0, 0>>, <<2, 0>>, <<0, 2>>, <<-2, 0>>, <<0, -2>>>>,
       indices |-> <<0, 1, 2, 0, 2, 3, 0, 3, 4, 0, 4, 1>>],
      [points |-> <<<<0, 0>>, <<2, 0>>, <<0, 2>>, <<2, 2>>, <<4, 2>>>>,
       indices |-> <<0, 1, 2, 1, 3, 2, 1, 4, 3>>],
      [points |-> <<<<0, 0>>, <<4, 0>>, <<4, 2>>, <<0, 2>>, <<1, 1>>>>,
       indices |-> <<0, 1, 2, 0, 2, 3>>] }

\* planes n . p = d, with the map that lays <<u, v>> into them
FlatPlanes ==
    { [normal |-> <<0, 0, 1>>, d |-> c, axis |-> 3] : c \in {-2, 3} }
    \cup { [normal |-> <<0, 1, 0>>, d |-> c, axis |-> 2] : c \in {-2, 3} }
    \cup { [normal |-> <<1, 0, 0>>, d |-> c, axis |-> 1] : c \in {-2, 3} }
    \cup { [normal |-> <<1, -1, 0>>, d |-> 0, axis |-> 0] }

embed(plane, uv) ==
    IF plane.axis = 3 THEN <<uv[1], uv[2], plane.d>>
    ELSE IF plane.axis = 2 THEN <<uv[1], plane.d, uv[2]>>
    ELSE IF plane.axis = 1 THEN <<plane.d, uv[1], uv[2]>>
    ELSE <<uv[1], uv[1], uv[2]>>

\* posArr and idxArr hold a flat mesh when the smoothing stage is reached
InitFlat ==
    /\ \E n \in 0..MaxFlatIterations :
          params = [DefaultParams EXCEPT !.useFrame = TRUE, !.smoothingIterations = n]
    /\ pc = "smooth"
    /\ error = "none"
    /\ progress = <<>>
    /\ solidField = {}
    /\ start = 0
    /\ caches = <<>>
    /\ \E shape \in FlatShapes : \E plane \in FlatPlanes :
          /\ positions = [v \in 1..Len(shape.points) |-> embed(plane, shape.points[v])]
          /\ faceIndices = shape.indices
    /\ cube = [x |-> 0, y |-> 0, z |-> 0]
    /\ posArr = toFloat32(positions)
    /\ idxArr = faceIndices
    /\ result = NoMesh
    /\ stl = NoSTL
    /\ other = NoRun

NextFlat ==
    \/ Smooth
    \/ Finish

SpecFlat == InitFlat /\ [][NextFlat]_vars

-----------------------------------------------------------------------------
Next ==
    \/ Validate
    \/ BuildChunk
    \/ VoidBoundary
    \/ McCube
    \/ Extract
    \/ Smooth
    \/ Finish
    \/ Export

Spec == Init /\ [][Next]_vars
-----------------------------------------------------------------------------
(* A request with many smoothing passes: the solid block (wallThickness    *)
(* beyond the gyroid's range) on the grid of 6 voxels per axis, smoothed LongIterations  *)
(* times                                                                    *)

LongIterations == 380

LongRequest ==
    [DefaultParams EXCEPT !.wallThickness = 400, !.resolution = 12,
                          !.smoothingIterations = LongIterations]

InitLong ==
    /\ params \in {LongRequest} \cup InvalidParams
    /\ pc = "start"
    /\ error = "none"
    /\ progress = <<>>
    /\ solidField = {}
    /\ start = 0
    /\ caches = <<>>
    /\ positions = <<>>
    /\ faceIndices = <<>>
    /\ cube = [x |-> 0, y |-> 0, z |-> 0]
    /\ posArr = <<>>
    /\ idxArr = <<>>
    /\ result = NoMesh
    /\ stl = NoSTL
    /\ other = NoRun

SpecLong == InitLong /\ [][Next]_vars

-----------------------------------------------------------------------------
(* Requests whose cell size does not divide the size: the cell count is     *)
(* rounded up, rounded down, or raised to 1                                 *)

SnapSizes == {12, 100}

SnapCellSizes == {5, 7, 8, 30, 40}

SnapParams ==
    { [DefaultParams EXCEPT !.size = s, !.cellSize = c, !.resolution = r,
                            !.useFrame = f] :
        s \in SnapSizes, c \in SnapCellSizes, r \in {4, 8}, f \in BOOLEAN }

InitSnap ==
    /\ params \in SnapParams \cup InvalidParams
    /\ pc = "start"
    /\ error = "none"
    /\ progress = <<>>
    /\ solidField = {}
    /\ start = 0
    /\ caches = <<>>
    /\ positions = <<>>
    /\ faceIndices = <<>>
    /\ cube = [x |-> 0, y |-> 0, z |-> 0]
    /\ posArr = <<>>
    /\ idxArr = <<>>
    /\ result = NoMesh
    /\ stl = NoSTL
    /\ other = NoRun

SpecSnap == InitSnap /\ [][Next]_vars

-----------------------------------------------------------------------------
(* The field builder on a grid of more than 3 * CHUNK voxels: 67 grid      *)
(* points per axis, 300763 voxels, so the loop runs a fourth chunk          *)

LargeRequest ==
    [DefaultParams EXCEPT !.size = 66, !.cellSize = 6, !.resolution = 132,
                          !.wallThickness = -40, !.useFrame = TRUE,
                          !.frameBeamWidth = 2]

InitField ==
    /\ params \in ValidParams \cup InvalidParams \cup {LargeRequest}
    /\ pc = "start"
    /\ error = "none"
    /\ progress = <<>>
    /\ solidField = {}
    /\ start = 0
    /\ caches = <<>>
    /\ positions = <<>>
    /\ faceIndices = <<>>
    /\ cube = [x |-> 0, y |-> 0, z |-> 0]
    /\ posArr = <<>>
    /\ idxArr = <<>>
    /\ result = NoMesh
    /\ stl = NoSTL
    /\ other = NoRun

\* the run up to the start of the marching-cubes sweep
NextField ==
    \/ Validate
    \/ BuildChunk
    \/ VoidBoundary

SpecField == InitField /\ [][NextField]_vars

-----------------------------------------------------------------------------
(* Two invocations with requests of their own, interleaved at the awaits *)

InitPair ==
    /\ params \in TwoRunParams
    /\ pc = "start"
    /\ error = "none"
    /\ progress = <<>>
    /\ solidField = {}
    /\ start = 0
    /\ caches = <<>>
    /\ positions = <<>>
    /\ faceIndices = <<>>
    /\ cube = [x |-> 0, y |-> 0, z |-> 0]
    /\ posArr = <<>>
    /\ idxArr = <<>>
    /\ result = NoMesh
    /\ stl = NoSTL
    /\ \E q \in TwoRunParams : other = notStarted(q)

SpecPair == InitPair /\ [][NextTwo]_vars

-----------------------------------------------------------------------------
(* extractLargestComponent on meshes of several triangle strips: the       *)
(* post-processing stages started on the buffers of such a mesh             *)

\* face counts of the strips
StripSizes == {8, 50, 52}

\* two or three strips, in every order
StripLists ==
    { <<a, b>> : a, b \in StripSizes } \cup { <<a, b, c>> : a, b, c \in StripSizes }

\* the faces that precede strip c in the face list
stripStart(sizes, c) ==
    IF c = 1 THEN 0 ELSE IF c = 2 THEN sizes[1] ELSE sizes[1] + sizes[2]

\* the strip of face g
stripOf(sizes, g) ==
    IF g < sizes[1] THEN 1 ELSE IF g < sizes[1] + sizes[2] THEN 2 ELSE 3

stripFaces(sizes) == stripStart(sizes, Len(sizes)) + sizes[Len(sizes)]

\* the index array: face i of a strip is <<b + i, b + i + 1, b + i + 2>>, b the
\* first vertex of the strip; reversed lists the faces from the last to the first
stripIndices(sizes, reversed) ==
    [j \in 1..(3 * stripFaces(sizes)) |->
        LET f == (j - 1) \div 3
            g == IF reversed THEN stripFaces(sizes) - 1 - f ELSE f
            c == stripOf(sizes, g)
        IN  (stripStart(sizes, c) + 2 * (c - 1)) + (g - stripStart(sizes, c)) + ((j - 1) % 3)]

\* one vertex position per vertex, all different
stripPositions(sizes) ==
    [v \in 1..(stripFaces(sizes) + 2 * Len(sizes)) |-> <<v - 1, (v * v) % 7, v % 3>>]

\* positions and faceIndices hold a mesh of strips when the sweep is over
InitExtract ==
    /\ params = DefaultParams
    /\ pc = "post"
    /\ error = "none"
    /\ progress = <<>>
    /\ solidField = {}
    /\ start = 0
    /\ caches = <<>>
    /\ \E sizes \in StripLists : \E reversed \in BOOLEAN :
          /\ positions = stripPositions(sizes)
          /\ faceIndices = stripIndices(sizes, reversed)
    /\ cube = [x |-> 0, y |-> 0, z |-> 0]
    /\ posArr = <<>>
    /\ idxArr = <<>>
    /\ result = NoMesh
    /\ stl = NoSTL
    /\ other = NoRun

NextExtract ==
    \/ Extract
    \/ Smooth
    \/ Finish

SpecExtract == InitExtract /\ [][NextExtract]_vars


-----------------------------------------------------------------------------
(* Properties of the returned mesh and of the sweep *)

\* C1: every returned mesh has a whole number of index triples, and every
\* index names one of its vertices
IndicesValid ==
    result.returned =>
        /\ Len(result.indices) % 3 = 0
        /\ \A j \in 1..Len(result.indices) :
              result.indices[j] >= 0 /\ result.indices[j] < Len(result.vertices)

\* a mesh is returned whose vertices were renumbered by the extractor
CompactedMeshReturned ==
    /\ result.returned
    /\ Len(result.indices) > 0
    /\ Len(result.vertices) < Len(positions)

\* the vertex position lies on exactly one grid edge, at its middle
OnOneEdge(w) == Cardinality({ d \in 0..2 : (w[d + 1] + res) % 2 = 1 }) = 1

\* the grid edge <<dir, baseIdx>> a vertex position is the middle of
EdgeOfVertex(w) ==
    LET dir  == CHOOSE d \in 0..2 : (w[d + 1] + res) % 2 = 1
        g(a) == (w[a] + res) \div 2
    IN  <<dir, g(1) + g(2) * np + g(3) * np2>>

\* the twelve grid edges of the cube at c0
CubeEdges(c0) ==
    { <<EDGE_DIR[e + 1], c0 + cornerOff(EDGE_CACHE_CORNER[e + 1])>> : e \in 0..11 }

\* every vertex is the one its grid edge has in the cache, every cache entry
\* names the vertex at the middle of its edge, and no two vertices coincide
EdgeVerticesUnique ==
    pc \in {"mc", "post"} =>
        /\ \A v \in 1..Len(positions) :
              /\ OnOneEdge(positions[v])
              /\ LET ed == EdgeOfVertex(positions[v])
                 IN  cacheAt(caches[ed[1] + 1], ed[2]) = v - 1
        /\ \A d \in 1..3 : \A i \in 0..(total - 1) :
              cacheAt(caches[d], i) >= 0 =>
                  /\ cacheAt(caches[d], i) < Len(positions)
                  /\ EdgeOfVertex(positions[cacheAt(caches[d], i) + 1]) = <<d - 1, i>>
        /\ Cardinality({ positions[v] : v \in 1..Len(positions) }) = Len(positions)

\* a cube of the sweep leaves every filled cache entry as it is, and each index
\* it emits is the cached vertex of one of its own edges
CubeUsesCache ==
    pc = "mc" =>
        /\ \A d \in 1..3 : \A i \in 0..(total - 1) :
              cacheAt(caches[d], i) >= 0 => cacheAt(caches'[d], i) = cacheAt(caches[d], i)
        /\ \A j \in (Len(faceIndices) + 1)..Len(faceIndices') :
              LET k == faceIndices'[j]
              IN  /\ k >= 0 /\ k < Len(positions')
                  /\ EdgeOfVertex(positions'[k + 1]) \in CubeEdges(c0Of(cube))
                  /\ LET ed == EdgeOfVertex(positions'[k + 1])
                     IN  cacheAt(caches'[ed[1] + 1], ed[2]) = k

\* C2: during the sweep a grid edge has at most one vertex, a cache entry once
\* filled never changes, every cube that shares the edge gets that vertex, and
\* no two vertices have the same position
EdgeVertexDeduplicated == [](EdgeVerticesUnique) /\ [][CubeUsesCache]_vars

\* the cube the sweep is about to visit crosses an edge whose vertex an
\* earlier cube has cached
CacheHitPending ==
    /\ pc = "mc"
    /\ \E e \in 0..11 :
          /\ BitSet(EDGE_TABLE[cubeIndexFrom(0, c0Of(cube)) + 1], e)
          /\ cacheAt(caches[EDGE_DIR[e + 1] + 1],
                    c0Of(cube) + cornerOff(EDGE_CACHE_CORNER[e + 1])) >= 0

InvalidInput == params.size <= 0 \/ params.cellSize <= 0 \/ params.resolution <= 0

\* C3: with size <= 0, cellSize <= 0 or resolution <= 0 the generation fails
\* with an error, the progress callback is never invoked and no mesh is returned
InvalidRejected ==
    InvalidInput =>
        /\ progress = <<>>
        /\ ~result.returned
        /\ pc \in {"start", "failed"}
        /\ pc = "failed" => error # "none"

\* a request whose only fault is its size has been rejected
SizeRejected ==
    /\ pc = "failed"
    /\ params.size <= 0 /\ params.cellSize > 0 /\ params.resolution > 0

\* the faces of the index array ix that have v as a corner
FacesAt(refs, v) == { (refs[v][i] - 1) \div 3 : i \in 1..Len(refs[v]) }

\* no undirected edge of the index array ix belongs to exactly one triangle
Closed(ix, numVerts) ==
    LET refs == slotsOf(ix, numVerts)
    IN  \A j \in 1..Len(ix) :
            LET a == ix[j]
                b == ix[IF j % 3 = 0 THEN j - 2 ELSE j + 1]
            IN  Cardinality(FacesAt(refs, a) \cap FacesAt(refs, b)) # 1

\* C4: the returned mesh is watertight: no undirected edge belongs to exactly
\* one triangle
Watertight == result.returned => Closed(result.indices, Len(result.vertices))

\* a mesh of several hundred triangles is returned
LargeMeshReturned == result.returned /\ Len(result.indices) \div 3 >= 500

RECURSIVE Grow(_, _)
\* the vertices joined to those of R by a chain of faces
Grow(ix, R) ==
    LET faces == { f \in 0..(Len(ix) \div 3 - 1) : \E k \in 1..3 : ix[3 * f + k] \in R }
        R2    == R \cup { ix[3 * f + k] : f \in faces, k \in 1..3 }
    IN  IF R2 = R THEN R ELSE Grow(ix, R2)

\* the faces of ix form exactly one connected component
OneComponent(ix) ==
    /\ Len(ix) > 0
    /\ Grow(ix, {ix[1]}) = { ix[j] : j \in 1..Len(ix) }

\* C5, as amended: in shell mode the returned mesh has exactly one connected
\* component whenever the sweep produced at least MIN_FACES faces
ShellSingleComponent ==
    (result.returned /\ ~params.useFrame /\ Len(faceIndices) \div 3 >= MIN_FACES)
        => OneComponent(result.indices)

\* C5, as stated: in shell mode the returned mesh has exactly one connected
\* component for every field that produces at least one face
ShellSingleComponentAnyMesh ==
    (result.returned /\ ~params.useFrame /\ Len(result.indices) > 0)
        => OneComponent(result.indices)

\* the extractor has dropped faces from the mesh that is returned
FragmentsRemoved ==
    /\ result.returned
    /\ ~params.useFrame
    /\ Len(result.indices) < Len(faceIndices)

-----------------------------------------------------------------------------
(* Properties of the field the builder hands to the boundary voider *)

\* the field builder has finished and the voider has not run
FieldBuilt == pc = "void"

ShellWithPorts == FieldBuilt /\ ~params.useFrame /\ ~params.makeManifold

Voxels == 0..(total - 1)

\* C6, as amended: in shell mode without makeManifold, before voiding, every
\* voxel in the Z face band and outside the X face band, in channel A and not
\* near a Y edge, is void
PortsAOpen ==
    ShellWithPorts =>
        \A idx \in Voxels :
            (zFace(idx) /\ ~xFace(idx) /\ channelA(idx) /\ ~nearYEdge(idx))
                => idx \notin solidField

\* C6, as stated: every voxel in the Z face band, in channel A and not near a
\* Y edge, is void
PortsAOpenAcrossX ==
    ShellWithPorts =>
        \A idx \in Voxels :
            (zFace(idx) /\ channelA(idx) /\ ~nearYEdge(idx)) => idx \notin solidField

\* a port of channel A has been carved out of the shell
PortACarved ==
    /\ ShellWithPorts
    /\ \E idx \in Voxels :
          /\ ~inInner(idx)
          /\ zFace(idx) /\ ~xFace(idx) /\ channelA(idx) /\ ~nearYEdge(idx)
          /\ idx \notin solidField

\* |y| > half - shellThickness
BeyondYShell(idx) ==
    CoordFinite /\ Abs(mmCoords(yi(idx))) > half - Scaled(params.shellThickness)

\* C7: in shell mode without makeManifold, before voiding, every voxel with
\* |y| > half - shellThickness is solid
YFacesSealed ==
    ShellWithPorts =>
        \A idx \in Voxels : BeyondYShell(idx) => idx \in solidField

\* a voxel of the Y shell lies where a port of channel A would open
YShellCrossesPortBand ==
    /\ ShellWithPorts
    /\ \E idx \in Voxels :
          /\ BeyondYShell(idx)
          /\ zFace(idx) /\ ~xFace(idx) /\ channelA(idx)
          /\ idx \in solidField

\* C8: in shell mode without makeManifold and with wallThickness >= 0, before
\* voiding, every void voxel outside the inner region is a channel A voxel in
\* the Z band and not the X band, or a channel B voxel in the X band and not
\* the Z band
ShellVoidsArePorts ==
    (ShellWithPorts /\ params.wallThickness >= 0) =>
        \A idx \in Voxels :
            (idx \notin solidField /\ ~inInner(idx)) =>
                \/ channelA(idx) /\ zFace(idx) /\ ~xFace(idx)
                \/ channelB(idx) /\ xFace(idx) /\ ~zFace(idx)

\* the shell has a port of each channel
BothPortsCarved ==
    /\ ShellWithPorts
    /\ params.wallThickness >= 0
    /\ \E idx \in Voxels : idx \notin solidField /\ ~inInner(idx) /\ channelA(idx)
    /\ \E idx \in Voxels : idx \notin solidField /\ ~inInner(idx) /\ channelB(idx)

Sealed == FieldBuilt /\ ~params.useFrame /\ params.makeManifold

\* C9: in shell mode with makeManifold, before voiding, every voxel outside
\* the inner region is solid
ManifoldShellSolid ==
    Sealed => \A idx \in Voxels : ~inInner(idx) => idx \in solidField

\* a voxel where a port would open is kept solid
PortSealed ==
    /\ Sealed
    /\ \E idx \in Voxels :
          /\ ~inInner(idx)
          /\ zFace(idx) /\ ~xFace(idx) /\ channelA(idx) /\ ~nearYEdge(idx)
          /\ idx \in solidField

\* how many of |x|, |y|, |z| are at least half - frameBeamWidth
NearCount(idx) ==
    (IF nearX(idx) THEN 1 ELSE 0) + (IF nearY(idx) THEN 1 ELSE 0)
  + (IF nearZ(idx) THEN 1 ELSE 0)

\* C10: in frame mode a voxel is structural iff at least two of |x|, |y|, |z|
\* are at least half - frameBeamWidth; every such voxel is solid, and any other
\* voxel, one near a single face included, is solid only if it is gyroid wall
FrameIsEdgeBeams ==
    (FieldBuilt /\ params.useFrame) =>
        \A idx \in Voxels :
            /\ NearCount(idx) >= 2 => idx \in solidField
            /\ NearCount(idx) < 2 => (idx \in solidField <=> gyroidWall(idx))

\* the frame has a beam voxel that is not gyroid wall and, near a single
\* face, a voxel left void
BeamAndOpenFace ==
    /\ FieldBuilt /\ params.useFrame
    /\ \E idx \in Voxels : NearCount(idx) = 2 /\ ~gyroidWall(idx) /\ idx \in solidField
    /\ \E idx \in Voxels : NearCount(idx) = 1 /\ idx \notin solidField

-----------------------------------------------------------------------------
(* Properties of the export, of repeated runs and of the post-processing *)

\* the buffer has 84 + 50 n bytes for the n = indices.length / 3 triangles of
\* the mesh, n at offset 80, and n records that fill it
STLHolds(n) ==
    /\ stl.written
    /\ stl.byteLength = 84 + 50 * n
    /\ stl.count = n
    /\ Len(stl.records) = n
    /\ stl.offset = stl.byteLength

\* C11, as amended: for every MeshData with at least one triangle exportToSTL
\* produces a buffer of exactly 84 + 50 * (indices.length / 3) bytes whose
\* uint32 at offset 80 is indices.length / 3, followed by that many records
STLSized ==
    (stl.called /\ Len(result.indices) > 0) => STLHolds(Len(result.indices) \div 3)

\* C11, as stated: the same for every MeshData, one with zero triangles included
STLSizedAnyMesh == stl.called => STLHolds(Len(result.indices) \div 3)

\* a mesh of a hundred triangles or more has been exported
LargeMeshExported == stl.called /\ stl.written /\ Len(stl.records) >= 100

\* the first cube of the z-outer, y-middle, x-inner sweep that has the grid
\* edge ed = <<dir, baseIdx>> among its twelve
FirstCube(ed) ==
    LET gz == ed[2] \div np2
        gy == (ed[2] - gz * np2) \div np
        gx == ed[2] - gz * np2 - gy * np
        cx == IF ed[1] = 0 THEN gx ELSE Max(gx - 1, 0)
        cy == IF ed[1] = 1 THEN gy ELSE Max(gy - 1, 0)
        cz == IF ed[1] = 2 THEN gz ELSE Max(gz - 1, 0)
    IN  cx + cy * np + cz * np2

\* where the sweep first meets the edge of vertex position w: twelve times
\* the cube, plus the number the edge has in that cube
FirstMet(w) ==
    LET ed == EdgeOfVertex(w)
        c0 == FirstCube(ed)
        e  == CHOOSE e \in 0..11 :
                <<EDGE_DIR[e + 1], c0 + cornerOff(EDGE_CACHE_CORNER[e + 1])>> = ed
    IN  12 * c0 + e

\* two finished runs of the same request returned the same mesh
SameRequestSameMesh ==
    (pc = "done" /\ other.pc = "done" /\ other.params = params)
        => other.result = result

\* vertices are numbered in the order the sweep first meets their edges
VerticesInSweepOrder ==
    pc \in {"mc", "post"} =>
        \A v \in 1..(Len(positions) - 1) :
            FirstMet(positions[v]) < FirstMet(positions[v + 1])

\* C12: two runs with identical parameters, however their awaits interleave,
\* return identical vertices, indices and normals, and vertex indices follow
\* the order in which the z, y, x, edge 0..11 sweep first meets the grid edges
Deterministic == SameRequestSameMesh /\ VerticesInSweepOrder

\* two runs of one request have both returned a mesh, after interleaving
TwoRunsFinished ==
    /\ pc = "done" /\ other.pc = "done" /\ other.params = params
    /\ Len(result.indices) > 0
    /\ Len(progress) > 0 /\ Len(other.progress) > 0

\* the two requests differ in smoothingIterations alone: n > 0 here, 0 there
SmoothedAndPlain ==
    /\ params.smoothingIterations > 0
    /\ other.pc # "absent"
    /\ other.params = [params EXCEPT !.smoothingIterations = 0]

\* C13: the indices, the vertex count and the triangle count returned with
\* smoothingIterations = n > 0 are those returned with smoothingIterations = 0,
\* and taubinSmooth leaves the position array it is given as it was
SmoothingMovesPositionsOnly ==
    /\ (SmoothedAndPlain /\ pc = "done" /\ other.pc = "done") =>
          /\ result.indices = other.result.indices
          /\ Len(result.vertices) = Len(other.result.vertices)
          /\ Len(result.indices) \div 3 = Len(other.result.indices) \div 3
    /\ (pc = "smooth" /\ params.smoothingIterations > 0) =>
          taubinSmoothBuffers(posArr, idxArr, params.smoothingIterations).positions
              = posArr

\* a smoothed and a plain run of one request have finished, the extractor
\* having renumbered the mesh, and the smoothed positions differ
SmoothedRunFinished ==
    /\ SmoothedAndPlain /\ pc = "done" /\ other.pc = "done"
    /\ Len(result.vertices) < Len(positions)
    /\ result.vertices # other.result.vertices

\* a tolerance of a hundredth of a half-step
Eps == FixScale \div 100

\* the planes that hold every vertex the smoothing stage was given
PlanesOfInput ==
    { plane \in FlatPlanes :
        \A v \in 1..Len(positions) :
            plane.normal[1] * positions[v][1] + plane.normal[2] * positions[v][2]
          + plane.normal[3] * positions[v][3] = plane.d }

Smoothed == pc \in {"normals", "done"} /\ Len(posArr) = Len(positions)

\* C14, as amended: taubinSmooth leaves every vertex of a coplanar mesh in the
\* plane of the mesh (within Eps), for every iteration count >= 0
FlatStaysInPlane ==
    Smoothed =>
        \A plane \in PlanesOfInput : \A v \in 1..Len(posArr) :
            Abs(plane.normal[1] * posArr[v][1] + plane.normal[2] * posArr[v][2]
              + plane.normal[3] * posArr[v][3] - plane.d * FixScale) <= Eps

\* C14, as stated: each output position of a coplanar mesh equals the input
\* position (within Eps)
FlatUnchanged ==
    (Smoothed /\ PlanesOfInput # {}) =>
        \A v \in 1..Len(posArr) : \A a \in 1..3 :
            Abs(posArr[v][a] - positions[v][a] * FixScale) <= Eps

\* a coplanar mesh has been smoothed and a vertex has moved within the plane
FlatVertexMoved ==
    /\ Smoothed
    /\ PlanesOfInput # {}
    /\ params.smoothingIterations > 0
    /\ \E v \in 1..Len(posArr) : posArr[v] # toFloat32(positions)[v]

\* the progress value r = <<numerator, denominator>> is the number k
Is(r, k) == r[1] = k * r[2]

RECURSIVE InOrder(_, _, _, _)
\* the checkpoints chk[i..] occur, in that order, among the reports seq[j..]
InOrder(chk, i, seq, j) ==
    IF i > Len(chk) THEN TRUE
    ELSE IF j > Len(seq) THEN FALSE
    ELSE IF Is(seq[j], chk[i]) THEN InOrder(chk, i + 1, seq, j + 1)
    ELSE InOrder(chk, i, seq, j + 1)

Checkpoints == <<5, 28, 30, 75, 80, 90, 100>>

\* C15: a call that passes validation and completes has reported the
\* checkpoints 5, 28, 30, 75, 80, 90, 100 in that order, other values allowed
\* in between, and 100 is the last value reported before the mesh is returned
CheckpointsReported ==
    result.returned =>
        /\ InOrder(Checkpoints, 1, progress, 1)
        /\ Is(progress[Len(progress)], 100)

\* a run has completed that reported a value between the checkpoints as well
RunReportedBetween ==
    /\ result.returned
    /\ \E j \in 1..Len(progress) :
          \A i \in 1..Len(Checkpoints) : ~Is(progress[j], Checkpoints[i])

\* C16: every coordinate of every returned vertex lies in
\* [-size/2 - step, size/2 + step] with step = size / resolution; with
\* smoothingIterations = 0 it is a grid coordinate or the middle of a grid
\* edge, strictly inside the bounding cube (refuted by LongRequest, whose
\* block has swollen past the interval when its passes are done)
WithinBoundingBox ==
    result.returned =>
        \A v \in 1..Len(result.vertices) : \A a \in 1..3 :
            LET c == result.vertices[v][a]
            IN  /\ Abs(c) * params.resolution
                       <= (res * params.resolution + 4 * res) * FixScale
                /\ params.smoothingIterations = 0 =>
                       /\ c % FixScale = 0
                       /\ Abs(c) < res * FixScale

EmptyMesh ==
    result.vertices = <<>> /\ result.normals = <<>> /\ result.indices = <<>>

\* no voxel of the field is solid
NoSolidVoxel == solidField = {}

\* C17 as stated: when wallThickness lies outside [-3, 3] no surface exists and
\* generate returns zero-length vertices, normals and indices without an error
\* (refuted by wallThickness = 4.0, which makes every voxel wall: the mesh is
\* the surface of the solid block)
ThresholdOutOfRangeEmpty ==
    (result.returned /\ (params.wallThickness > 300 \/ params.wallThickness < -300)) =>
        EmptyMesh /\ error = "none"

\* C17: generate returns zero-length vertices, normals and indices, and no
\* error, exactly when no voxel is solid once the boundary is voided
EmptyFieldEmptyMesh ==
    result.returned =>
        /\ error = "none"
        /\ EmptyMesh <=> NoSolidVoxel
        /\ result.indices = <<>> <=> NoSolidVoxel

\* a run whose field had no solid voxel left has returned
EmptyFieldReturned ==
    /\ result.returned
    /\ NoSolidVoxel
    /\ EmptyMesh
    /\ Len(progress) > 0

\* a run with wallThickness = 4.0 has returned a mesh with triangles
SolidBlockReturned ==
    /\ result.returned
    /\ params.wallThickness > 300
    /\ Len(result.indices) > 0

\* C18: the largest component is extracted in shell mode only; in frame mode
\* the returned mesh holds every face and every vertex of the sweep, in the
\* order of the sweep, also when the mesh has two or more components
FrameKeepsEveryComponent ==
    /\ (pc \in {"smooth", "normals", "done"} /\ params.useFrame) =>
          /\ idxArr = faceIndices
          /\ Len(posArr) = Len(positions)
          /\ pc = "smooth" => posArr = toFloat32(positions)
    /\ (result.returned /\ params.useFrame) =>
          /\ result.indices = faceIndices
          /\ Len(result.vertices) = Len(positions)
          /\ params.smoothingIterations = 0 => result.vertices = toFloat32(positions)

\* a frame mesh of MIN_FACES faces or more, in several components, is returned
FrameFragmentsReturned ==
    /\ result.returned
    /\ params.useFrame
    /\ Len(faceIndices) \div 3 >= MIN_FACES
    /\ ~OneComponent(faceIndices)
    /\ result.indices = faceIndices

\* C19: the effective period of the gyroid is size / max(1, round(size / cellSize)):
\* the cell count is an integer of at least 1, it is the integer nearest to
\* size / cellSize (halves upwards) or 1 when that is 0, the axis spans that
\* many whole periods, and for size = 100, cellSize = 30 the period is 100 / 3
PeriodDividesSize ==
    (pc \notin {"start", "failed"}) =>
        LET n == snappedCellCount
        IN  /\ n >= 1
            /\ 2 * params.size < (2 * n + 1) * params.cellSize
            /\ n > 1 => (2 * n - 1) * params.cellSize <= 2 * params.size
            /\ radCoords(res) - radCoords(0) = TurnSteps * n
            /\ sinRad(res) = sinRad(0) /\ cosRad(res) = cosRad(0)
            /\ (params.size = 100 /\ params.cellSize = 30) => n = 3

\* the mesh of the request size = 100, cellSize = 30 is returned, its field
\* built with 3 periods along each axis
SnappedToThirds ==
    /\ pc = "done"
    /\ params.size = 100 /\ params.cellSize = 30
    /\ snappedCellCount = 3
    /\ Len(result.indices) > 0

\* the reports made while the field builder ran, the checkpoint 28 included
FieldReports ==
    IF pc \in {"field", "void"} THEN progress
    ELSE IF pc \in {"mc", "post"} THEN SubSeq(progress, 1, Len(progress) - 1)
    ELSE <<>>

\* C20: every progress value reported while the field builder runs, from the
\* first report of 5 up to and including the checkpoint 28, lies in [5, 28]
\* (refuted by LargeRequest: the report after the fourth chunk is above 28)
FieldProgressInRange ==
    \A j \in 1..Len(FieldReports) :
        /\ 5 * FieldReports[j][2] <= FieldReports[j][1]
        /\ FieldReports[j][1] <= 28 * FieldReports[j][2]

\* p <= q for two reports <<numerator, denominator>>; equal denominators and
\* whole values are compared without the cross products
ReportLeq(p, q) ==
    IF p[2] = q[2] THEN p[1] <= q[1]
    ELSE IF q[2] = 1 THEN p[1] <= q[1] * p[2]
    ELSE IF p[2] = 1 THEN p[1] * q[2] <= q[1]
    ELSE p[1] * q[2] <= q[1] * p[2]

\* C21: within one generate call the values passed to the progress callback
\* never decrease, for every number of field-builder chunks and
\* marching-cubes slabs (refuted by LargeRequest: 29.94 is followed by 28)
ProgressNonDecreasing ==
    \A j \in 1..(Len(progress) - 1) : ReportLeq(progress[j], progress[j + 1])

\* voxel idx has a grid coordinate equal to 0 or res
OnBoundary(idx) ==
    \/ xi(idx) \in {0, res}
    \/ yi(idx) \in {0, res}
    \/ zi(idx) \in {0, res}

\* the step of the boundary voider: the boundary voxels are void after it, and
\* every other voxel is as the field builder left it
VoiderStep ==
    pc = "void" =>
        /\ \A idx \in Voxels : OnBoundary(idx) => idx \notin solidField'
        /\ \A idx \in Voxels :
              ~OnBoundary(idx) => (idx \in solidField' <=> idx \in solidField)

\* C22: the boundary voider sets to void exactly the voxels with a grid
\* coordinate equal to 0 or R and leaves every other voxel unchanged; for
\* R = 1 the whole field is void after it
BoundaryLayerVoided ==
    /\ [][VoiderStep]_vars
    /\ []((res = 1 /\ pc \in {"mc", "post", "smooth", "normals", "done"})
            => solidField = {})

\* the voider has just run: a boundary voxel the builder made solid is void,
\* and a solid voxel inside is left
BoundaryVoxelCleared ==
    /\ pc = "mc"
    /\ cube = [x |-> 0, y |-> 0, z |-> 0]
    /\ \E idx \in Voxels : OnBoundary(idx) /\ solidAt(idx) = 1 /\ idx \notin solidField
    /\ \E idx \in Voxels : ~OnBoundary(idx) /\ idx \in solidField

\* the grid edges <<dir, baseIdx>>: baseIdx and baseIdx + axisDelta(dir) are
\* neighbours along the axis dir
GridEdges ==
    { <<0, idx>> : idx \in { i \in Voxels : xi(i) < res } }
    \cup { <<1, idx>> : idx \in { i \in Voxels : yi(i) < res } }
    \cup { <<2, idx>> : idx \in { i \in Voxels : zi(i) < res } }

\* the two end voxels of the edge differ in solid/void
Crossing(ed) ==
    (ed[2] \in solidField) # (ed[2] + axisDelta(ed[1]) \in solidField)

CrossingEdges == { ed \in GridEdges : Crossing(ed) }

\* C25: marching cubes creates a vertex on a grid edge if and only if the two
\* end voxels of the edge differ in solid/void after the boundary is voided,
\* and the vertex is at the exact middle of the edge in world coordinates
VertexIffCrossing ==
    /\ pc \in {"mc", "post", "smooth", "normals", "done"} =>
          \A v \in 1..Len(positions) :
              /\ OnOneEdge(positions[v])
              /\ \A a \in 1..3 : Abs(positions[v][a]) <= res
              /\ Crossing(EdgeOfVertex(positions[v]))
    /\ pc \in {"post", "smooth", "normals", "done"} =>
          LET crossing == CrossingEdges
          IN  /\ { EdgeOfVertex(positions[v]) : v \in 1..Len(positions) } = crossing
              /\ Len(positions) = Cardinality(crossing)

\* the sweep is done on a field with crossing edges and with edges between
\* two solid and between two void voxels
SweepMadeVertices ==
    /\ pc = "post"
    /\ Len(positions) > 0
    /\ \E ed \in GridEdges : ~Crossing(ed) /\ ed[2] \in solidField
    /\ \E ed \in GridEdges : ~Crossing(ed) /\ ed[2] \notin solidField

\* the field a run of the request builds and voids, from the request alone
SoloField == { idx \in Voxels : solidAt(idx) = 1 } \ voided

\* the index the sweep gave to the vertex of grid edge ed
VertexOn(ed) ==
    (CHOOSE v \in 1..Len(positions) : EdgeOfVertex(positions[v]) = ed) - 1

RECURSIVE RowFaces(_, _, _)
\* the triangles of the cube at c0, from row tBase of TRI_TABLE
RowFaces(c0, tBase, t) ==
    IF ~(t < 16) \/ TRI_TABLE[tBase + t + 1] = -1 THEN <<>>
    ELSE <<VertexOn(<<EDGE_DIR[TRI_TABLE[tBase + t + 1] + 1],
                      c0 + cornerOff(EDGE_CACHE_CORNER[TRI_TABLE[tBase + t + 1] + 1])>>)>>
         \o RowFaces(c0, tBase, t + 1)

RECURSIVE SweepFaces(_, _)
\* the triangles of the cubes lo..hi of the z, y, x order, cube by cube
SweepFaces(lo, hi) ==
    IF lo > hi THEN <<>>
    ELSE IF lo = hi
    THEN LET c0 == (lo % res) + ((lo \div res) % res) * np + (lo \div (res * res)) * np2
         IN  RowFaces(c0, cubeIndexFrom(0, c0) * 16, 0)
    ELSE LET mid == (lo + hi) \div 2
         IN  SweepFaces(lo, mid) \o SweepFaces(mid + 1, hi)

\* the mesh generateGyroidMesh makes of the sweep's buffers
MeshOfSweep ==
    LET m  == IF ~params.useFrame
              THEN extractLargestComponent(toFloat32(positions), faceIndices)
              ELSE [positions |-> toFloat32(positions), indices |-> faceIndices]
        sm == IF params.smoothingIterations > 0
              THEN taubinSmooth(m.positions, m.indices, params.smoothingIterations)
              ELSE m.positions
    IN  [vertices |-> sm, normals |-> computeVertexNormals(sm, m.indices),
         indices |-> m.indices, returned |-> TRUE]

\* C23: two invocations whose steps interleave at the awaits do not interfere:
\* the field, the vertices, the faces and the mesh of each are those its own
\* request determines, whatever the other invocation has done in between
RunsAlone ==
    /\ pc \in {"mc", "post", "smooth", "normals", "done"} => solidField = SoloField
    /\ pc \in {"post", "smooth", "normals", "done"} =>
          LET crossing == CrossingEdges
          IN  /\ Len(positions) = Cardinality(crossing)
              /\ { EdgeOfVertex(positions[v]) : v \in 1..Len(positions) } = crossing
              /\ \A v \in 1..(Len(positions) - 1) :
                    FirstMet(positions[v]) < FirstMet(positions[v + 1])
              /\ faceIndices = SweepFaces(0, res * res * res - 1)
    /\ pc = "done" => result = MeshOfSweep

\* the two invocations, with requests of different modes, are both part-way
\* through their sweeps, each with vertices of its own
BothMidSweep ==
    /\ pc = "mc" /\ other.pc = "mc"
    /\ other.params.useFrame # params.useFrame
    /\ Len(positions) > 0 /\ Len(other.positions) > 0
    /\ cube.z > 0 /\ other.cube.z > 0

\* the faces of the component of face f in the index array ix
ComponentOf(ix, f) ==
    LET verts == Grow(ix, {ix[3 * f + 1]})
    IN  { g \in 0..(Len(ix) \div 3 - 1) : ix[3 * g + 1] \in verts }

RECURSIVE ComponentsAmong(_, _)
\* the components of the faces of the set left, each a set of faces
ComponentsAmong(ix, left) ==
    IF left = {} THEN {}
    ELSE LET f == CHOOSE a \in left : \A b \in left : a <= b
             c == ComponentOf(ix, f)
         IN  {c} \cup ComponentsAmong(ix, left \ c)

\* the lowest-numbered face of a set of faces
Lowest(c) == CHOOSE a \in c : \A b \in c : a <= b

\* the three corner positions of face f, in the order of the index array
Corners(pos, ix, f) ==
    <<pos[ix[3 * f + 1] + 1], pos[ix[3 * f + 2] + 1], pos[ix[3 * f + 3] + 1]>>

\* C24: on a mesh of at least 100 faces and more than one component,
\* extractLargestComponent returns exactly the faces of a component with the
\* greatest face count, on a tie the one with the lowest-numbered face, every
\* face with its corners in their order and at their positions, and every
\* returned vertex is a corner of some face
LargestComponentKept ==
    (pc = "smooth" /\ ~params.useFrame /\ Len(faceIndices) \div 3 >= MIN_FACES
        /\ ~OneComponent(faceIndices)) =>
        LET comps == ComponentsAmong(faceIndices, 0..(Len(faceIndices) \div 3 - 1))
            best  == CHOOSE c \in comps :
                        \A d \in comps :
                            \/ Cardinality(d) < Cardinality(c)
                            \/ Cardinality(d) = Cardinality(c) /\ Lowest(c) <= Lowest(d)
            pos   == toFloat32(positions)
        IN  /\ Len(idxArr) = 3 * Cardinality(best)
            /\ { Corners(posArr, idxArr, j) : j \in 0..(Len(idxArr) \div 3 - 1) }
                 = { Corners(pos, faceIndices, f) : f \in best }
            /\ { idxArr[j] : j \in 1..Len(idxArr) } = 0..(Len(posArr) - 1)

\* the extraction has run on a mesh of 100 faces or more whose two largest
\* components have the same face count, and the one holding face 0 is not
\* the first strip of vertices
TieResolved ==
    /\ pc = "smooth" /\ ~params.useFrame
    /\ Len(faceIndices) \div 3 >= MIN_FACES
    /\ Len(idxArr) < Len(faceIndices)
    /\ faceIndices[1] > 0
    /\ LET comps == ComponentsAmong(faceIndices, 0..(Len(faceIndices) \div 3 - 1))
       IN  \E c, d \in comps :
              /\ c # d
              /\ Cardinality(c) = Cardinality(d)
              /\ 3 * Cardinality(c) = Len(idxArr)

\* C26: whenever validation has passed, the grid is well formed: the voxel
\* count per axis res = floor(resolution) is at least 1 and step = size / res
\* is finite, for every accepted resolution, non-integer values included
GridWellFormed ==
    pc \notin {"start", "failed"} => res >= 1 /\ CoordFinite

====
